---- MODULE Spec2Model ----
(***************************************************************************)
(* FolderChecksum: the classification-and-reconciliation pipeline.         *)
(*                                                                         *)
(* main() walks the folder and hands every file to a pool of               *)
(* fileCheckWorker goroutines over the unbuffered channel chFileCheck;     *)
(* each worker classifies the file against the committed database and      *)
(* sends a dbUpdateMsg over the buffered channel chDbUpdate to the single  *)
(* dbUpdateWorker, which owns the one transaction of the run.              *)
(*                                                                         *)
(* Paths are sequences of one-character strings, so that prefix matching,  *)
(* LIKE patterns and ordering are computed character by character.         *)
(***************************************************************************)
EXTENDS Integers, Sequences, FiniteSets, TLC

\* ------------------------------------------------------------------ bounds

\* Sizes stored in the initial database rows range over 1..MaxSize.
MaxSize == 2
\* Number of fileCheckWorker goroutines (cfg.j) in the runs explored.
NumWorkers == 2
\* Number of invocations of the tool in one session (SpecSession).
MaxRuns == 2

\* Length of the message sequences fed to dbUpdateWorker alone (SpecCmds).
MaxCmds == 3

\* Capacity of chDbUpdate: make(chan dbUpdateMsg, 128).
ChanCap == 128

\* ------------------------------------------------------------ characters

\* Byte value of each character the path universe uses.
Code(c) ==
    CASE c = "%" -> 37
      [] c = "/" -> 47
      [] c = "A" -> 65
      [] c = "\\" -> 92
      [] c = "_" -> 95
      [] c = "a" -> 97
      [] c = "b" -> 98
      [] c = "x" -> 120

\* Directory-walk rank of a character: fs.WalkDir visits the entries of a
\* directory in the order of their names, so the separator ranks lowest.
WalkCode(c) == IF c = "/" THEN 0 ELSE Code(c)

\* ASCII case folding as done by SQLite's LIKE (no case_sensitive_like
\* pragma is set on the connection).
FoldCase(c) == IF c = "A" THEN "a" ELSE c

\* Byte-wise "<" of two strings (SQLite BINARY collation, Go string order).
RECURSIVE StrLess(_, _)
StrLess(p, q) ==
    IF q = <<>> THEN FALSE
    ELSE IF p = <<>> THEN TRUE
    ELSE IF Head(p) = Head(q) THEN StrLess(Tail(p), Tail(q))
    ELSE Code(Head(p)) < Code(Head(q))

\* Order in which fs.WalkDir reaches two files.
RECURSIVE WalkLess(_, _)
WalkLess(p, q) ==
    IF q = <<>> THEN FALSE
    ELSE IF p = <<>> THEN TRUE
    ELSE IF Head(p) = Head(q) THEN WalkLess(Tail(p), Tail(q))
    ELSE WalkCode(Head(p)) < WalkCode(Head(q))

\* strings.HasPrefix
HasPrefix(s, pre) ==
    /\ Len(pre) <= Len(s)
    /\ SubSeq(s, 1, Len(pre)) = pre

\* The set S of paths as a sequence in ascending byte order (ORDER BY path ASC).
RECURSIVE SortAsc(_)
SortAsc(S) ==
    IF S = {} THEN <<>>
    ELSE LET m == CHOOSE x \in S : \A y \in S \ {x} : StrLess(x, y)
         IN <<m>> \o SortAsc(S \ {m})

\* The set S of paths in the order the directory walk reaches them.
RECURSIVE SortWalk(_)
SortWalk(S) ==
    IF S = {} THEN <<>>
    ELSE LET m == CHOOSE x \in S : \A y \in S \ {x} : WalkLess(x, y)
         IN <<m>> \o SortWalk(S \ {m})

\* strings.ReplaceAll(s, old, new) for a one-character old.
RECURSIVE ReplaceAll(_, _, _)
ReplaceAll(s, old, new) ==
    IF s = <<>> THEN <<>>
    ELSE (IF Head(s) = old THEN new ELSE <<Head(s)>>)
            \o ReplaceAll(Tail(s), old, new)

escapeForLike(literal) ==
    LET r1 == ReplaceAll(literal, "\\", <<"\\", "\\">>)
        r2 == ReplaceAll(r1, "%", <<"\\", "%">>)
    IN  ReplaceAll(r2, "_", <<"\\", "_">>)

\* SQLite's  s LIKE pat ESCAPE '\' : % matches any run of characters, _ any
\* one character, an escaped character matches itself, and ASCII letters
\* match without regard to case.
RECURSIVE Like(_, _)
Like(pat, s) ==
    IF pat = <<>> THEN s = <<>>
    ELSE IF Head(pat) = "%"
        THEN Like(Tail(pat), s) \/ (s # <<>> /\ Like(pat, Tail(s)))
    ELSE IF Head(pat) = "_"
        THEN s # <<>> /\ Like(Tail(pat), Tail(s))
    ELSE IF Head(pat) = "\\"
        THEN /\ Len(pat) >= 2
             /\ s # <<>>
             /\ FoldCase(pat[2]) = FoldCase(Head(s))
             /\ Like(Tail(Tail(pat)), Tail(s))
    ELSE /\ s # <<>>
         /\ FoldCase(Head(pat)) = FoldCase(Head(s))
         /\ Like(Tail(pat), Tail(s))

\* WHERE path LIKE ? ESCAPE '\'  with the argument escapeForLike(prefix)+"%".
LikePrefix(path, prefix) == Like(escapeForLike(prefix) \o <<"%">>, path)

\* ------------------------------------------------------------- the catalog

\* A catalog (the files table) is a function from the paths that have a row
\* to [size, checksum, visited]; path is the primary key.

\* SQL NULL in the checksum column.
Null == "NULL"

\* Faulty variant of ChecksumParam: the string is bound as it is.
ChecksumParamKeep(checksum) == checksum

\* The checksum bound to the statement: nil for the empty string.
ChecksumParam(checksum) == IF checksum = "" THEN Null ELSE checksum

\* The scanned checksum column: the empty string for NULL.
ChecksumScan(col) == IF col = Null THEN "" ELSE col

\* Rows of t other than those at the paths in S.
Without(t, S) == [q \in DOMAIN t \ S |-> t[q]]

\* Faulty variant of mustInsertFile: INSERT OR REPLACE, which overwrites the
\* row of an existing path.
mustInsertFileOrReplace(t, file) ==
    [fatal |-> FALSE,
     tx |-> (file.relPath :> [size |-> file.size,
                              checksum |-> ChecksumParam(file.checksum),
                              visited |-> TRUE])
            @@ Without(t, {file.relPath})]

\* INSERT INTO files(path, size, checksum, visited) VALUES(?, ?, ?, 1)
\* fails on an existing primary key.
mustInsertFile(t, file) ==
    IF file.relPath \in DOMAIN t
    THEN [fatal |-> TRUE, tx |-> t]
    ELSE [fatal |-> FALSE,
          tx |-> (file.relPath :> [size |-> file.size,
                                   checksum |-> ChecksumParam(file.checksum),
                                   visited |-> TRUE]) @@ t]

\* Faulty variant of mustUpdateAndMarkFile: the statement sets size and
\* visited and leaves the stored checksum.
mustUpdateAndMarkFileKeepSum(t, file) ==
    IF file.relPath \notin DOMAIN t
    THEN [fatal |-> TRUE, tx |-> t]
    ELSE [fatal |-> FALSE,
          tx |-> [t EXCEPT ![file.relPath] =
                     [size |-> file.size,
                      checksum |-> @.checksum,
                      visited |-> TRUE]]]

\* Faulty variant of mustUpdateAndMarkFile: the statement has
\* "AND visited=0", as the one of mustMarkFile.
mustUpdateAndMarkFileUnvisited(t, file) ==
    IF file.relPath \notin DOMAIN t \/ t[file.relPath].visited
    THEN [fatal |-> TRUE, tx |-> t]
    ELSE [fatal |-> FALSE,
          tx |-> [t EXCEPT ![file.relPath] =
                     [size |-> file.size,
                      checksum |-> ChecksumParam(file.checksum),
                      visited |-> TRUE]]]

\* UPDATE files SET size=?, checksum=?, visited=1 WHERE path=?
\* with assertRowsAffected(res, 1).
mustUpdateAndMarkFile(t, file) ==
    IF file.relPath \notin DOMAIN t
    THEN [fatal |-> TRUE, tx |-> t]
    ELSE [fatal |-> FALSE,
          tx |-> [t EXCEPT ![file.relPath] =
                     [size |-> file.size,
                      checksum |-> ChecksumParam(file.checksum),
                      visited |-> TRUE]]]

\* Faulty variant of mustMarkFile: the statement has no "AND visited=0", so
\* marking a visited row again succeeds.
mustMarkFileAnyRow(t, relPath) ==
    IF relPath \in DOMAIN t
    THEN [fatal |-> FALSE, tx |-> [t EXCEPT ![relPath].visited = TRUE]]
    ELSE [fatal |-> TRUE, tx |-> t]

\* Faulty variant of mustMarkFile: the statement matches the row but leaves
\* its visited flag at 0.
mustMarkFileNoFlag(t, relPath) ==
    IF relPath \in DOMAIN t /\ ~t[relPath].visited
    THEN [fatal |-> FALSE, tx |-> t]
    ELSE [fatal |-> TRUE, tx |-> t]

\* Faulty variant of mustMarkFile: the number of rows affected is not
\* asserted.
mustMarkFileNoAssert(t, relPath) ==
    IF relPath \in DOMAIN t /\ ~t[relPath].visited
    THEN [fatal |-> FALSE, tx |-> [t EXCEPT ![relPath].visited = TRUE]]
    ELSE [fatal |-> FALSE, tx |-> t]

\* UPDATE files SET visited=1 WHERE path=? AND visited=0
\* with assertRowsAffected(res, 1).
mustMarkFile(t, relPath) ==
    IF relPath \in DOMAIN t /\ ~t[relPath].visited
    THEN [fatal |-> FALSE, tx |-> [t EXCEPT ![relPath].visited = TRUE]]
    ELSE [fatal |-> TRUE, tx |-> t]

\* SELECT size, checksum FROM files WHERE path=?  (nil when there is no row)
mustQueryFile(t, relPath) ==
    IF relPath \in DOMAIN t
    THEN [found |-> TRUE,
          info |-> [relPath |-> relPath, size |-> t[relPath].size,
                    checksum |-> ChecksumScan(t[relPath].checksum)]]
    ELSE [found |-> FALSE,
          info |-> [relPath |-> relPath, size |-> 0, checksum |-> ""]]

\* The second result of mustQueryFile: the row's visited flag, false
\* when there is no row.
mustQueryFileVisited(t, relPath) ==
    relPath \in DOMAIN t /\ t[relPath].visited

\* The prefix check shared by the range statements: a non-empty prefix must
\* end with '/'.
BadRangePrefix(prefix) ==
    prefix # <<>> /\ prefix[Len(prefix)] # "/"

\* The rows WHERE path LIKE ? ESCAPE '\' AND visited=0 select.
UnvisitedIn(t, prefix) ==
    {q \in DOMAIN t : LikePrefix(q, prefix) /\ ~t[q].visited}

\* The rows WHERE path LIKE ? ESCAPE '\' AND visited=1 select.
VisitedIn(t, prefix) ==
    {q \in DOMAIN t : LikePrefix(q, prefix) /\ t[q].visited}

\* Faulty variant of mustDeleteUnvisitedFile: the row is matched and kept.
mustDeleteUnvisitedFileKeep(t, relPath) ==
    IF relPath \in DOMAIN t /\ ~t[relPath].visited
    THEN [fatal |-> FALSE, tx |-> t]
    ELSE [fatal |-> TRUE, tx |-> t]

\* DELETE FROM files WHERE path=? AND visited=0, assertRowsAffected(res, 1).
mustDeleteUnvisitedFile(t, relPath) ==
    IF relPath \in DOMAIN t /\ ~t[relPath].visited
    THEN [fatal |-> FALSE, tx |-> Without(t, {relPath})]
    ELSE [fatal |-> TRUE, tx |-> t]

\* SELECT path, size, checksum ... ORDER BY path ASC: the paths handed to
\* procOneFile, in order.
mustQueryUnvisitedFiles(t, prefix) ==
    IF BadRangePrefix(prefix)
    THEN [fatal |-> TRUE, files |-> <<>>]
    ELSE [fatal |-> FALSE, files |-> SortAsc(UnvisitedIn(t, prefix))]

\* Faulty variant of mustDeleteUnvisitedFiles: the rows are counted and kept.
mustDeleteUnvisitedFilesKeep(t, prefix, expectN) ==
    IF BadRangePrefix(prefix) THEN [fatal |-> TRUE, tx |-> t]
    ELSE LET S == UnvisitedIn(t, prefix)
         IN  [fatal |-> Cardinality(S) # expectN, tx |-> t]

\* Faulty variant of mustDeleteUnvisitedFiles: the statement has no
\* "AND visited=0".
mustDeleteUnvisitedFilesAnyFlag(t, prefix, expectN) ==
    IF BadRangePrefix(prefix) THEN [fatal |-> TRUE, tx |-> t]
    ELSE LET S == {q \in DOMAIN t : LikePrefix(q, prefix)}
         IN  [fatal |-> Cardinality(S) # expectN, tx |-> Without(t, S)]

\* DELETE FROM files WHERE path LIKE ? ESCAPE '\' AND visited=0 with
\* assertRowsAffected(res, expectN).
mustDeleteUnvisitedFiles(t, prefix, expectN) ==
    IF BadRangePrefix(prefix) THEN [fatal |-> TRUE, tx |-> t]
    ELSE LET S == UnvisitedIn(t, prefix)
         IN  [fatal |-> Cardinality(S) # expectN, tx |-> Without(t, S)]

\* UPDATE files SET visited=0 WHERE path=? AND visited=1 (no assertion).
mustClearVisitedFlag(t, relpath) ==
    IF relpath \in DOMAIN t
    THEN [t EXCEPT ![relpath].visited = FALSE]
    ELSE t

\* Faulty variant of mustClearVisitedFlags: the flags are left set.
mustClearVisitedFlagsKeep(t, prefix) ==
    IF BadRangePrefix(prefix) THEN [fatal |-> TRUE, tx |-> t]
    ELSE [fatal |-> FALSE, tx |-> t]

\* UPDATE files SET visited=0 WHERE path LIKE ? ESCAPE '\' AND visited=1
mustClearVisitedFlags(t, prefix) ==
    IF BadRangePrefix(prefix) THEN [fatal |-> TRUE, tx |-> t]
    ELSE [fatal |-> FALSE,
          tx |-> [q \in DOMAIN t |->
                    IF LikePrefix(q, prefix)
                    THEN [t[q] EXCEPT !.visited = FALSE] ELSE t[q]]]

\* The result of mustClearVisitedFlags: the number of rows it changed.
mustClearVisitedFlagsCount(t, prefix) == Cardinality(VisitedIn(t, prefix))

\* ------------------------------------------------------------ the workers

\* Faulty variant of shouldExcludePath: the include expression is ignored.
shouldExcludePathNoInclude(c, relPath) ==
    relPath \in c.excludeRe

\* cfg.excludeRe.MatchString(relPath) && !cfg.includeRe.MatchString(relPath);
\* the two expressions are kept as the sets of paths they match.
shouldExcludePath(c, relPath) ==
    relPath \in c.excludeRe /\ relPath \notin c.includeRe

\* Faulty variant of mustCalcChecksum: the number of bytes read is not
\* compared with the size.
mustCalcChecksumAnySize(files, relPath, size, sizeOnly) ==
    IF sizeOnly THEN [fatal |-> FALSE, checksum |-> ""]
    ELSE [fatal |-> FALSE, checksum |-> files[relPath].md5]

\* mustCalcChecksum: "" in size-only mode, else the md5 of the file, fatal
\* when the number of bytes read is not the size the walk reported.
mustCalcChecksum(files, relPath, size, sizeOnly) ==
    IF sizeOnly THEN [fatal |-> FALSE, checksum |-> ""]
    ELSE IF files[relPath].n # size THEN [fatal |-> TRUE, checksum |-> ""]
    ELSE [fatal |-> FALSE, checksum |-> files[relPath].md5]

Line(kind, relPath) == [kind |-> kind, path |-> relPath]

DbUpdateMsg(opType, relPath, size, checksum) ==
    [opType |-> opType,
     info |-> [relPath |-> relPath, size |-> size, checksum |-> checksum]]

\* What one iteration of fileCheckWorker's loop does with msg: the line it
\* writes, the counter it increments, the message it sends to dbUpdateWorker
\* (none or one) and whether it ends in logFatal.
CheckResult(lines, stat, cmds, fatal) ==
    [lines |-> lines, stat |-> stat, cmds |-> cmds, fatal |-> fatal]

\* Faulty variant of newFile: the line is written inside "if cfg.update".
newFileQuietDryRun(c, msg, sum) ==
    IF c.update
    THEN CheckResult(<<Line("new", msg.relPath)>>, "new",
             IF sum.fatal THEN <<>>
             ELSE <<DbUpdateMsg("I", msg.relPath, msg.size, sum.checksum)>>,
             sum.fatal)
    ELSE CheckResult(<<>>, "new", <<>>, FALSE)

\* The branch "Db doesn't have this file": outputNewFile, then with
\* cfg.update the checksum and the "I" message.
newFile(c, msg, sum) ==
    IF c.update
    THEN CheckResult(<<Line("new", msg.relPath)>>, "new",
             IF sum.fatal THEN <<>>
             ELSE <<DbUpdateMsg("I", msg.relPath, msg.size, sum.checksum)>>,
             sum.fatal)
    ELSE CheckResult(<<Line("new", msg.relPath)>>, "new", <<>>, FALSE)

\* Faulty variant of sameSizeSizeOnly: the file is only marked, in both
\* modes.
sameSizeSizeOnlyMarkOnly(c, msg, hasSum) ==
    CheckResult(<<>>, "unchanged",
                <<DbUpdateMsg("M", msg.relPath, msg.size, "")>>, FALSE)

\* The branch "size is the same, cfg.sizeOnly": outputUnchangedFile, then
\* "U" with an empty checksum when the row has a checksum and cfg.update,
\* else "M".
sameSizeSizeOnly(c, msg, hasSum) ==
    IF hasSum /\ c.update
    THEN CheckResult(<<>>, "unchanged",
                     <<DbUpdateMsg("U", msg.relPath, msg.size, "")>>, FALSE)
    ELSE CheckResult(<<>>, "unchanged",
                     <<DbUpdateMsg("M", msg.relPath, msg.size, "")>>, FALSE)

\* Faulty variant of compareChecksum: a row without a checksum is taken as
\* unchanged.
compareChecksumSkipAbsent(c, msg, stored, sum) ==
    IF sum.fatal THEN CheckResult(<<>>, "none", <<>>, TRUE)
    ELSE IF stored = "" \/ stored = sum.checksum
        THEN CheckResult(<<>>, "unchanged",
                 <<DbUpdateMsg("M", msg.relPath, msg.size, sum.checksum)>>,
                 FALSE)
    ELSE CheckResult(<<Line("changed", msg.relPath)>>, "changed",
             <<DbUpdateMsg(IF c.update THEN "U" ELSE "M",
                           msg.relPath, msg.size, sum.checksum)>>, FALSE)

\* Faulty variant of compareChecksum: a changed file is updated in the
\* catalog whether or not the run persists.
compareChecksumAlwaysUpdate(c, msg, stored, sum) ==
    IF sum.fatal THEN CheckResult(<<>>, "none", <<>>, TRUE)
    ELSE IF stored = sum.checksum
        THEN CheckResult(<<>>, "unchanged",
                 <<DbUpdateMsg("M", msg.relPath, msg.size, sum.checksum)>>,
                 FALSE)
    ELSE CheckResult(<<Line("changed", msg.relPath)>>, "changed",
             <<DbUpdateMsg("U", msg.relPath, msg.size, sum.checksum)>>,
             FALSE)

\* The branch "Compare the checksum": mustCalcChecksum, then unchanged and
\* "M" when the stored checksum equals the computed one, else changed and
\* "U" with cfg.update or "M" without.
compareChecksum(c, msg, stored, sum) ==
    IF sum.fatal THEN CheckResult(<<>>, "none", <<>>, TRUE)
    ELSE IF stored = sum.checksum
        THEN CheckResult(<<>>, "unchanged",
                 <<DbUpdateMsg("M", msg.relPath, msg.size, sum.checksum)>>,
                 FALSE)
    ELSE CheckResult(<<Line("changed", msg.relPath)>>, "changed",
             <<DbUpdateMsg(IF c.update THEN "U" ELSE "M",
                           msg.relPath, msg.size, sum.checksum)>>, FALSE)

\* Faulty variant of sizeDiffers: without cfg.update nothing is sent.
sizeDiffersNoMark(c, msg, sum) ==
    IF c.update
    THEN CheckResult(<<Line("changed", msg.relPath)>>, "changed",
             IF sum.fatal THEN <<>>
             ELSE <<DbUpdateMsg("U", msg.relPath, msg.size, sum.checksum)>>,
             sum.fatal)
    ELSE CheckResult(<<Line("changed", msg.relPath)>>, "changed", <<>>,
                     FALSE)

\* The branch "Db has this file, but size is different": outputChangedFile,
\* then with cfg.update the checksum and the "U" message, without it the
\* "M" message.
sizeDiffers(c, msg, sum) ==
    IF c.update
    THEN CheckResult(<<Line("changed", msg.relPath)>>, "changed",
             IF sum.fatal THEN <<>>
             ELSE <<DbUpdateMsg("U", msg.relPath, msg.size, sum.checksum)>>,
             sum.fatal)
    ELSE CheckResult(<<Line("changed", msg.relPath)>>, "changed",
                     <<DbUpdateMsg("M", msg.relPath, msg.size, "")>>, FALSE)

fileCheckOne(c, catalog, files, msg) ==
    LET p        == msg.relPath
        inDb     == mustQueryFile(catalog, p)
        sum      == mustCalcChecksum(files, p, msg.size, c.sizeOnly)
        hasSum   == inDb.info.checksum # ""
    IN
    IF shouldExcludePath(c, p) THEN CheckResult(<<>>, "none", <<>>, FALSE)
    ELSE IF ~inDb.found THEN newFile(c, msg, sum)
    ELSE IF inDb.info.size # msg.size THEN sizeDiffers(c, msg, sum)
    ELSE IF c.sizeOnly THEN sameSizeSizeOnly(c, msg, hasSum)
    ELSE compareChecksum(c, msg, inDb.info.checksum, sum)

\* Faulty variant of verifyStats: the check of the update mode is made in
\* both modes.
verifyStatsAnyMode(c, st) ==
    st.numVisitedFlagsCleared =
        st.numFilesNew + st.numFilesChanged + st.numFilesUnchanged

\* Faulty variant of verifyStats: the counters are logged and not compared.
verifyStatsLogOnly(c, st) == TRUE

\* verifyStats: TRUE when the counters pass the end-of-run check.
verifyStats(c, st) ==
    IF c.update
    THEN st.numVisitedFlagsCleared =
            st.numFilesNew + st.numFilesChanged + st.numFilesUnchanged
    ELSE st.numVisitedFlagsCleared = 0

\* mustHandleDeletedFiles(cfg, tx, prefix): the paths it outputs as deleted
\* (in order), the transaction's content afterwards, the number it adds to
\* numVisitedFlagsCleared and whether it ends in logFatal.
SweepResult(fatal, t, deleted, cleared) ==
    [fatal |-> fatal, tx |-> t, deleted |-> deleted, cleared |-> cleared]

mustHandleDeletedFiles(c, t, prefix) ==
    IF prefix = <<>> THEN
        \* Process all entries.
        LET q   == mustQueryUnvisitedFiles(t, <<>>)
            del == mustDeleteUnvisitedFiles(t, <<>>, Len(q.files))
            clr == mustClearVisitedFlags(del.tx, <<>>)
        IN  IF ~c.update THEN SweepResult(FALSE, t, q.files, 0)
            ELSE IF del.fatal THEN SweepResult(TRUE, del.tx, q.files, 0)
            ELSE SweepResult(FALSE, clr.tx, q.files,
                             mustClearVisitedFlagsCount(del.tx, <<>>))
    ELSE IF prefix[Len(prefix)] = "/" THEN SweepResult(TRUE, t, <<>>, 0)
    ELSE
        LET \* Process "prefix"
            file     == mustQueryFile(t, prefix)
            visited  == mustQueryFileVisited(t, prefix)
            stale    == file.found /\ ~visited
            first    == IF stale THEN <<prefix>> ELSE <<>>
            delOne   == mustDeleteUnvisitedFile(t, prefix)
            fatal1   == c.update /\ stale /\ delOne.fatal
            t1       == IF ~file.found \/ ~c.update THEN t
                        ELSE IF visited THEN mustClearVisitedFlag(t, prefix)
                        ELSE delOne.tx
            cleared1 == IF file.found /\ visited /\ c.update THEN 1 ELSE 0
            \* numDeleted is reset only after the delete of the update mode.
            carried  == IF stale /\ ~c.update THEN 1 ELSE 0
            \* Process "prefix/..."
            slash    == prefix \o <<"/">>
            q        == mustQueryUnvisitedFiles(t1, slash)
            del      == mustDeleteUnvisitedFiles(t1, slash,
                                                 carried + Len(q.files))
            clr      == mustClearVisitedFlags(del.tx, slash)
        IN  IF fatal1 THEN SweepResult(TRUE, t, first, 0)
            ELSE IF ~c.update
                THEN SweepResult(FALSE, t, first \o q.files, 0)
            ELSE IF del.fatal
                THEN SweepResult(TRUE, del.tx, first \o q.files, cleared1)
            ELSE SweepResult(FALSE, clr.tx, first \o q.files,
                     cleared1 + mustClearVisitedFlagsCount(del.tx, slash))

\* Recursively enumerate the files under prefix (the file itself when
\* prefix names a file, nothing when it does not exist).
mustWalkDir(files, prefix) ==
    LET under == {f \in DOMAIN files :
                    \/ prefix = <<>>
                    \/ f = prefix
                    \/ HasPrefix(f, prefix \o <<"/">>)}
        order == SortWalk(under)
    IN  [i \in 1..Len(order) |->
            [relPath |-> order[i], size |-> files[order[i]].size]]

\* main's walk: the whole folder, or every prefix in turn.
RECURSIVE WalkPrefixes(_, _)
WalkPrefixes(files, prefixes) ==
    IF prefixes = <<>> THEN <<>>
    ELSE mustWalkDir(files, Head(prefixes))
            \o WalkPrefixes(files, Tail(prefixes))

WalkAll(files, c) ==
    IF Len(c.prefix) = 0 THEN mustWalkDir(files, <<>>)
    ELSE WalkPrefixes(files, c.prefix)

\* main's "D" messages: one for "" or one per prefix.
SweepList(c) == IF Len(c.prefix) = 0 THEN << <<>> >> ELSE c.prefix

\* The pieces of a path between its separators.
RECURSIVE SplitPath(_, _, _)
SplitPath(s, cur, done) ==
    IF s = <<>> THEN Append(done, cur)
    ELSE IF Head(s) = "/" THEN SplitPath(Tail(s), <<>>, Append(done, cur))
    ELSE SplitPath(Tail(s), Append(cur, Head(s)), done)

\* path.Clean on a rooted path: empty and "." elements are dropped, ".."
\* removes the element before it and is dropped at the root.
RECURSIVE CleanSegments(_, _)
CleanSegments(segs, kept) ==
    IF segs = <<>> THEN kept
    ELSE LET g == Head(segs)
         IN  IF g = <<>> \/ g = <<".">>
                 THEN CleanSegments(Tail(segs), kept)
             ELSE IF g = <<".", ".">>
                 THEN CleanSegments(Tail(segs),
                          IF kept = <<>> THEN kept
                          ELSE SubSeq(kept, 1, Len(kept) - 1))
             ELSE CleanSegments(Tail(segs), Append(kept, g))

RECURSIVE JoinPath(_)
JoinPath(segs) ==
    IF segs = <<>> THEN <<>>
    ELSE IF Len(segs) = 1 THEN segs[1]
    ELSE segs[1] \o <<"/">> \o JoinPath(Tail(segs))

\* Faulty variant of cleanPrefix: the argument is taken as it was typed.
cleanPrefixKeep(prefix) == prefix

\* cleanPrefix: path.Clean("/" + prefix)[1:].
cleanPrefix(prefix) ==
    JoinPath(CleanSegments(SplitPath(prefix, <<>>, <<>>), <<>>))

\* flagsToConfig: cfg.prefix holds every prefix argument, cleaned.
CleanPrefixes(args) == [i \in DOMAIN args |-> cleanPrefix(args[i])]

HasTrailingSlash(prefix) == prefix # <<>> /\ prefix[Len(prefix)] = "/"

\* ------------------------------------------------------------------ state

VARIABLES
    db,         \* the committed content of the database file
    cfg,        \* the configuration of the current invocation
    fs,         \* the regular files under rootDir: path -> [size, md5, n]
    todo,       \* the fileCheckMsg the walk has still to hand out
    mainPc,     \* where main() is: "walk", "wait", "waitdb", "exit"
    wk,         \* fileCheckWorker w: [st, pending]
    chDbUpdate, \* the content of the buffered channel
    sweepIdx,   \* number of "D" messages main has sent
    dbPc,       \* dbUpdateWorker: "start", "loop", "stopped"
    tx,         \* the content seen inside the transaction
    txState,    \* "none", "open", "committed", "rolledback"
    out,        \* the lines written to cfg.outFile
    stats,      \* the five counters
    status,     \* the process: "running", "exited", "fatal"
    dbStart,    \* db when the invocation started
    runNo,      \* number of the invocation in the session
    prev        \* what the previous invocation of the session did

vars == <<db, cfg, fs, todo, mainPc, wk, chDbUpdate, sweepIdx, dbPc, tx,
          txState, out, stats, status, dbStart, runNo, prev>>

Workers == 1..NumWorkers

\* -------------------------------------------------------- the inputs explored

pA  == <<"a">>
pAX == <<"a", "/", "x">>
pAB == <<"a", "b">>
pUX == <<"A", "/", "x">>
pU  == <<"A">>

Paths == {pA, pAX, pAB, pUX}

Digests == {"D1", "D2"}

EmptyCatalog == [q \in {} |-> 0]

\* The rows a stored path may have when a session starts; visited is 0 in
\* every row the tool has committed.
AnyRow ==
    [size : 1..MaxSize, checksum : Digests \cup {Null}, visited : {FALSE}]

RowChoices(p) ==
    IF p = pAX
    THEN {r \in AnyRow : r.size = 1 \/ r.checksum = "D1"}
    ELSE {r \in AnyRow : r.size = 1 /\ r.checksum = "D1"}

Catalogs ==
    UNION {{t \in [D -> AnyRow] : \A q \in D : t[q] \in RowChoices(q)} :
           D \in SUBSET Paths}

\* A file of the folder; n is the number of bytes a read of it returns,
\* different from size when the file changes under the run.
FileChoices(p) ==
    IF p = pAX
    THEN [size : {1}, md5 : {"D1"}, n : {0, 1}]
    ELSE [size : {1}, md5 : {"D1"}, n : {1}]

\* A folder holds no file at a path that is also a directory.
FileSystems ==
    UNION {{f \in [D -> [size : {1}, md5 : {"D1"}, n : {0, 1}]] :
               \A q \in D : f[q] \in FileChoices(q)} :
           D \in {E \in SUBSET (Paths \ {pUX}) : ~(pA \in E /\ pAX \in E)}}

\* cfg.prefix after cleanPrefix: none, one, two disjoint ones, two
\* overlapping ones, two that differ in the case of a letter.
PrefixLists == { <<>>, <<pA>>, <<pAB, pA>>, <<pAX, pA>>, <<pU, pA>> }

\* The prefix arguments as typed: the lists above, and one whose prefix ends
\* with the separator.
PrefixArgs == PrefixLists \cup { << <<"a", "/">> >> }

Configs(files) ==
    {c \in [update : BOOLEAN, sizeOnly : BOOLEAN, args : PrefixArgs,
            prefix : {CleanPrefixes(a) : a \in PrefixArgs},
            excludeRe : IF pAB \in DOMAIN files THEN {{}, {pAB}} ELSE {{}},
            includeRe : IF pAB \in DOMAIN files THEN {{}, {pAB}} ELSE {{}}] :
        /\ c.prefix = CleanPrefixes(c.args)
        /\ c.includeRe \subseteq c.excludeRe}

ZeroStats ==
    [numFilesNew |-> 0, numFilesChanged |-> 0, numFilesDeleted |-> 0,
     numFilesUnchanged |-> 0, numVisitedFlagsCleared |-> 0]

NoPrev == [ran |-> FALSE]

\* The state in which main() has started its workers.
Started(catalog, files, c, k, before) ==
    /\ db = catalog
    /\ fs = files
    /\ cfg = c
    /\ todo = WalkAll(files, c)
    /\ mainPc = "walk"
    /\ wk = [w \in Workers |-> [st |-> "recv", pending |-> <<>>]]
    /\ chDbUpdate = <<>>
    /\ sweepIdx = 0
    /\ dbPc = "start"
    /\ tx = EmptyCatalog
    /\ txState = "none"
    /\ out = <<>>
    /\ stats = ZeroStats
    /\ status = "running"
    /\ dbStart = catalog
    /\ runNo = k
    /\ prev = before

Init ==
    \E catalog \in Catalogs, files \in FileSystems :
        \E c \in Configs(files) :
            Started(catalog, files, c, 1, NoPrev)

\* A session: the tool is run again on the same folder with the same
\* prefixes and patterns.
SessionFileSystems == {f \in FileSystems : \A q \in DOMAIN f : f[q].n = f[q].size}

SessionConfigs(files) ==
    {c \in Configs(files) :
        c.args = c.prefix /\ c.excludeRe = {} /\ c.includeRe = {}}

InitSession ==
    \E catalog \in Catalogs, files \in SessionFileSystems :
        \E c \in SessionConfigs(files) :
            Started(catalog, files, c, 1, NoPrev)

\* ---------------------------------------------------------------- actions

\* Faulty variant of Bump: outputUnchangedFile does not count.
BumpNoUnchanged(st, stat) ==
    IF stat = "new" THEN [st EXCEPT !.numFilesNew = @ + 1]
    ELSE IF stat = "changed" THEN [st EXCEPT !.numFilesChanged = @ + 1]
    ELSE st

Bump(st, stat) ==
    IF stat = "new" THEN [st EXCEPT !.numFilesNew = @ + 1]
    ELSE IF stat = "changed" THEN [st EXCEPT !.numFilesChanged = @ + 1]
    ELSE IF stat = "unchanged" THEN [st EXCEPT !.numFilesUnchanged = @ + 1]
    ELSE st

\* main hands the next file to worker w (chFileCheck is unbuffered), and w
\* classifies it up to the send on chDbUpdate.
FileCheck(w) ==
    /\ status = "running"
    /\ mainPc = "walk"
    /\ todo # <<>>
    /\ wk[w].st = "recv"
    /\ LET r == fileCheckOne(cfg, db, fs, Head(todo))
       IN  /\ todo' = Tail(todo)
           /\ out' = out \o r.lines
           /\ stats' = Bump(stats, r.stat)
           /\ status' = IF r.fatal THEN "fatal" ELSE status
           /\ wk' = IF r.fatal \/ r.cmds = <<>> THEN wk
                    ELSE [wk EXCEPT ![w] = [st |-> "send", pending |-> r.cmds]]
    /\ UNCHANGED <<db, cfg, fs, mainPc, chDbUpdate, sweepIdx, dbPc, tx,
                   txState, dbStart, runNo, prev>>

\* cOut <- dbUpdateMsg{...}
SendCmd(w) ==
    /\ status = "running"
    /\ wk[w].st = "send"
    /\ Len(chDbUpdate) < ChanCap
    /\ chDbUpdate' = chDbUpdate \o wk[w].pending
    /\ wk' = [wk EXCEPT ![w] = [st |-> "recv", pending |-> <<>>]]
    /\ UNCHANGED <<db, cfg, fs, todo, mainPc, sweepIdx, dbPc, tx, txState,
                   out, stats, status, dbStart, runNo, prev>>

\* close(chFileCheck) once the walk has handed out every file.
CloseFileCheck ==
    /\ status = "running"
    /\ mainPc = "walk"
    /\ todo = <<>>
    /\ mainPc' = "wait"
    /\ UNCHANGED <<db, cfg, fs, todo, wk, chDbUpdate, sweepIdx, dbPc, tx,
                   txState, out, stats, status, dbStart, runNo, prev>>

\* Faulty variant of WorkerStop: the worker returns without wg.Done(), so
\* wgFileCheck.Wait() never sees it stopped.
WorkerStopNoDone(w) ==
    /\ status = "running"
    /\ mainPc # "walk"
    /\ wk[w].st = "recv"
    /\ wk' = [wk EXCEPT ![w].st = "returned"]
    /\ UNCHANGED <<db, cfg, fs, todo, mainPc, chDbUpdate, sweepIdx, dbPc, tx,
                   txState, out, stats, status, dbStart, runNo, prev>>

\* The range loop of worker w ends on the closed channel: wg.Done().
WorkerStop(w) ==
    /\ status = "running"
    /\ mainPc # "walk"
    /\ wk[w].st = "recv"
    /\ wk' = [wk EXCEPT ![w].st = "stopped"]
    /\ UNCHANGED <<db, cfg, fs, todo, mainPc, chDbUpdate, sweepIdx, dbPc, tx,
                   txState, out, stats, status, dbStart, runNo, prev>>

\* Faulty variant of SendSweep: main sends the "D" messages before it has
\* handed out the files of the walk.
SendSweepBeforeWalk ==
    /\ status = "running"
    /\ mainPc \in {"walk", "wait"}
    /\ sweepIdx < Len(SweepList(cfg))
    /\ Len(chDbUpdate) < ChanCap
    /\ chDbUpdate' = Append(chDbUpdate,
                        DbUpdateMsg("D", SweepList(cfg)[sweepIdx + 1], 0, ""))
    /\ sweepIdx' = sweepIdx + 1
    /\ UNCHANGED <<db, cfg, fs, todo, mainPc, wk, dbPc, tx, txState, out,
                   stats, status, dbStart, runNo, prev>>

\* Faulty variant of SendSweep: main does not wait for the workers before
\* it sends the "D" messages.
SendSweepNoWait ==
    /\ status = "running"
    /\ mainPc = "wait"
    /\ sweepIdx < Len(SweepList(cfg))
    /\ Len(chDbUpdate) < ChanCap
    /\ chDbUpdate' = Append(chDbUpdate,
                        DbUpdateMsg("D", SweepList(cfg)[sweepIdx + 1], 0, ""))
    /\ sweepIdx' = sweepIdx + 1
    /\ UNCHANGED <<db, cfg, fs, todo, mainPc, wk, dbPc, tx, txState, out,
                   stats, status, dbStart, runNo, prev>>

\* After wgFileCheck.Wait(): main sends the next "D" message.
SendSweep ==
    /\ status = "running"
    /\ mainPc = "wait"
    /\ \A w \in Workers : wk[w].st = "stopped"
    /\ sweepIdx < Len(SweepList(cfg))
    /\ Len(chDbUpdate) < ChanCap
    /\ chDbUpdate' = Append(chDbUpdate,
                        DbUpdateMsg("D", SweepList(cfg)[sweepIdx + 1], 0, ""))
    /\ sweepIdx' = sweepIdx + 1
    /\ UNCHANGED <<db, cfg, fs, todo, mainPc, wk, dbPc, tx, txState, out,
                   stats, status, dbStart, runNo, prev>>

\* Faulty variant of CloseDbUpdate: main closes the channel without having
\* sent the "D" messages.
CloseDbUpdateEarly ==
    /\ status = "running"
    /\ mainPc = "wait"
    /\ \A w \in Workers : wk[w].st = "stopped"
    /\ mainPc' = "waitdb"
    /\ UNCHANGED <<db, cfg, fs, todo, wk, chDbUpdate, sweepIdx, dbPc, tx,
                   txState, out, stats, status, dbStart, runNo, prev>>

\* close(chDbUpdate)
CloseDbUpdate ==
    /\ status = "running"
    /\ mainPc = "wait"
    /\ \A w \in Workers : wk[w].st = "stopped"
    /\ sweepIdx = Len(SweepList(cfg))
    /\ mainPc' = "waitdb"
    /\ UNCHANGED <<db, cfg, fs, todo, wk, chDbUpdate, sweepIdx, dbPc, tx,
                   txState, out, stats, status, dbStart, runNo, prev>>

\* Faulty variant of DbStart: no transaction is begun and the statements
\* are prepared on the database handle.
DbStartNoTx ==
    /\ status = "running"
    /\ dbPc = "start"
    /\ dbPc' = "loop"
    /\ tx' = db
    /\ UNCHANGED <<db, cfg, fs, todo, mainPc, wk, chDbUpdate, sweepIdx, out,
                   stats, status, dbStart, runNo, prev, txState>>

\* dbUpdateWorker begins: mustCreateTx and the prepared statements.
DbStart ==
    /\ status = "running"
    /\ dbPc = "start"
    /\ dbPc' = "loop"
    /\ tx' = db
    /\ txState' = "open"
    /\ UNCHANGED <<db, cfg, fs, todo, mainPc, wk, chDbUpdate, sweepIdx, out,
                   stats, status, dbStart, runNo, prev>>

RECURSIVE DeletedLines(_)
DeletedLines(paths) ==
    IF paths = <<>> THEN <<>>
    ELSE <<Line("deleted", Head(paths))>> \o DeletedLines(Tail(paths))

\* Faulty variant of ApplyMsg: the sweep deletes and clears whether or not
\* the run persists.
ApplyMsgSweepUpdates(c, t, msg) ==
    IF msg.opType = "I"
        THEN LET r == mustInsertFile(t, msg.info)
             IN  SweepResult(r.fatal, r.tx, <<>>, 0)
    ELSE IF msg.opType = "U"
        THEN LET r == mustUpdateAndMarkFile(t, msg.info)
             IN  SweepResult(r.fatal, r.tx, <<>>, 0)
    ELSE IF msg.opType = "M"
        THEN LET r == mustMarkFile(t, msg.info.relPath)
             IN  SweepResult(r.fatal, r.tx, <<>>, 0)
    ELSE IF msg.opType = "D"
        THEN mustHandleDeletedFiles([c EXCEPT !.update = TRUE], t,
                                    msg.info.relPath)
    ELSE SweepResult(TRUE, t, <<>>, 0)

\* What dbUpdateWorker does with one message.
ApplyMsg(c, t, msg) ==
    IF msg.opType = "I"
        THEN LET r == mustInsertFile(t, msg.info)
             IN  SweepResult(r.fatal, r.tx, <<>>, 0)
    ELSE IF msg.opType = "U"
        THEN LET r == mustUpdateAndMarkFile(t, msg.info)
             IN  SweepResult(r.fatal, r.tx, <<>>, 0)
    ELSE IF msg.opType = "M"
        THEN LET r == mustMarkFile(t, msg.info.relPath)
             IN  SweepResult(r.fatal, r.tx, <<>>, 0)
    ELSE IF msg.opType = "D"
        THEN mustHandleDeletedFiles(c, t, msg.info.relPath)
    ELSE SweepResult(TRUE, t, <<>>, 0)

\* Faulty variant of DbApply: the statements run on the database handle
\* instead of the transaction, so each one is committed as it is executed.
DbApplyAutocommit ==
    /\ status = "running"
    /\ dbPc = "loop"
    /\ chDbUpdate # <<>>
    /\ LET r == ApplyMsg(cfg, tx, Head(chDbUpdate))
       IN  /\ chDbUpdate' = Tail(chDbUpdate)
           /\ tx' = r.tx
           /\ db' = r.tx
           /\ out' = out \o DeletedLines(r.deleted)
           /\ stats' = [stats EXCEPT
                          !.numFilesDeleted = @ + Len(r.deleted),
                          !.numVisitedFlagsCleared = @ + r.cleared]
           /\ status' = IF r.fatal THEN "fatal" ELSE status
    /\ UNCHANGED <<cfg, fs, todo, mainPc, wk, sweepIdx, dbPc, txState,
                   dbStart, runNo, prev>>

\* One iteration of dbUpdateWorker's loop.
DbApply ==
    /\ status = "running"
    /\ dbPc = "loop"
    /\ chDbUpdate # <<>>
    /\ LET r == ApplyMsg(cfg, tx, Head(chDbUpdate))
       IN  /\ chDbUpdate' = Tail(chDbUpdate)
           /\ tx' = r.tx
           /\ out' = out \o DeletedLines(r.deleted)
           /\ stats' = [stats EXCEPT
                          !.numFilesDeleted = @ + Len(r.deleted),
                          !.numVisitedFlagsCleared = @ + r.cleared]
           /\ status' = IF r.fatal THEN "fatal" ELSE status
    /\ UNCHANGED <<db, cfg, fs, todo, mainPc, wk, sweepIdx, dbPc, txState,
                   dbStart, runNo, prev>>

\* Faulty variant of EndTx: the transaction is committed in both modes.
EndTxAlwaysCommit(c, committed, t) ==
    [db |-> t, txState |-> "committed"]

\* The end of dbUpdateWorker: mustCommitTx(tx) with cfg.update, tx.Rollback()
\* without. The committed content and the state of the transaction afterwards.
EndTx(c, committed, t) ==
    IF c.update THEN [db |-> t, txState |-> "committed"]
    ELSE [db |-> committed, txState |-> "rolledback"]

\* The loop ends on the closed channel: verifyStats, then commit or rollback.
DbFinish ==
    /\ status = "running"
    /\ dbPc = "loop"
    /\ chDbUpdate = <<>>
    /\ mainPc = "waitdb"
    /\ IF ~verifyStats(cfg, stats)
       THEN /\ status' = "fatal"
            /\ UNCHANGED <<db, dbPc, txState>>
       ELSE /\ dbPc' = "stopped"
            /\ db' = EndTx(cfg, db, tx).db
            /\ txState' = EndTx(cfg, db, tx).txState
            /\ UNCHANGED status
    /\ UNCHANGED <<cfg, fs, todo, mainPc, wk, chDbUpdate, sweepIdx, tx, out,
                   stats, dbStart, runNo, prev>>

\* After wgDbUpdate.Wait(): cfg.db.Close() and main returns.
MainExit ==
    /\ status = "running"
    /\ mainPc = "waitdb"
    /\ dbPc = "stopped"
    /\ mainPc' = "exit"
    /\ status' = "exited"
    /\ UNCHANGED <<db, cfg, fs, todo, wk, chDbUpdate, sweepIdx, dbPc, tx,
                   txState, out, stats, dbStart, runNo, prev>>

\* The process has ended and the tool is invoked again, with or without
\* -update, on the unchanged folder.
NewRun ==
    /\ status \in {"exited", "fatal"}
    /\ runNo < MaxRuns
    /\ \E u \in BOOLEAN :
        /\ cfg' = [cfg EXCEPT !.update = u]
        /\ todo' = WalkAll(fs, cfg')
    /\ mainPc' = "walk"
    /\ wk' = [w \in Workers |-> [st |-> "recv", pending |-> <<>>]]
    /\ chDbUpdate' = <<>>
    /\ sweepIdx' = 0
    /\ dbPc' = "start"
    /\ tx' = EmptyCatalog
    /\ txState' = "none"
    /\ out' = <<>>
    /\ stats' = ZeroStats
    /\ status' = "running"
    /\ dbStart' = db
    /\ runNo' = runNo + 1
    /\ prev' = [ran |-> TRUE, cfg |-> cfg, out |-> out, stats |-> stats,
                status |-> status, dbStart |-> dbStart]
    /\ UNCHANGED <<db, fs>>

Next ==
    \/ \E w \in Workers : FileCheck(w)
    \/ \E w \in Workers : SendCmd(w)
    \/ CloseFileCheck
    \/ \E w \in Workers : WorkerStop(w)
    \/ SendSweep
    \/ CloseDbUpdate
    \/ DbStart
    \/ DbApply
    \/ DbFinish
    \/ MainExit

Spec == Init /\ [][Next]_vars

NextSession == Next \/ NewRun

SpecSession == InitSession /\ [][NextSession]_vars

\* dbUpdateWorker alone, as dbUpdateWorkerRunTest drives it: a sequence of
\* messages is sent and the channel closed; the sender counts "I" as new,
\* "U" as changed and "M" as unchanged before dbUpdateWorker reads them.
CmdCatalogs == {t \in Catalogs : \A q \in DOMAIN t : t[q].checksum = "D1"}

CmdChoices ==
    {DbUpdateMsg(op, q, 1, "D2") : op \in {"I", "U", "M"}, q \in {pA, pAX}}
        \cup {DbUpdateMsg("D", q, 0, "") : q \in {<<>>, pA, <<"a", "/">>}}

CmdSeqs == UNION {[1..k -> CmdChoices] : k \in 0..MaxCmds}

RECURSIVE SenderStats(_)
SenderStats(msgs) ==
    IF msgs = <<>> THEN ZeroStats
    ELSE LET op == Head(msgs).opType
         IN  Bump(SenderStats(Tail(msgs)),
                  IF op = "I" THEN "new"
                  ELSE IF op = "U" THEN "changed"
                  ELSE IF op = "M" THEN "unchanged" ELSE "none")

InitCmds ==
    \E catalog \in CmdCatalogs, msgs \in CmdSeqs, u \in BOOLEAN :
        /\ db = catalog
        /\ fs = EmptyCatalog
        /\ cfg = [update |-> u, sizeOnly |-> FALSE, args |-> <<>>,
                  prefix |-> <<>>, excludeRe |-> {}, includeRe |-> {}]
        /\ todo = <<>>
        /\ mainPc = "waitdb"
        /\ wk = [w \in Workers |-> [st |-> "stopped", pending |-> <<>>]]
        /\ chDbUpdate = msgs
        /\ sweepIdx = 1
        /\ dbPc = "start"
        /\ tx = EmptyCatalog
        /\ txState = "none"
        /\ out = <<>>
        /\ stats = SenderStats(msgs)
        /\ status = "running"
        /\ dbStart = catalog
        /\ runNo = 1
        /\ prev = NoPrev

NextCmds == DbStart \/ DbApply \/ DbFinish \/ MainExit

SpecCmds == InitCmds /\ [][NextCmds]_vars

\* -------------------------------------------------- vocabulary of the claims

\* Path q is the scope P itself or lies under P + "/".
InScope(q, P) == q = P \/ HasPrefix(q, P \o <<"/">>)

\* Two scopes overlap when one is the other or a path ancestor of it.
Overlap(P, Q) == InScope(P, Q) \/ InScope(Q, P)

NonOverlapping(prefixes) ==
    \A i, j \in DOMAIN prefixes : i # j => ~Overlap(prefixes[i], prefixes[j])

\* Number of lines "kind: q" in the stream o.
LineCount(o, kind, q) ==
    Cardinality({i \in DOMAIN o : o[i] = Line(kind, q)})

\* The paths that have a line of the given kind in the stream o.
LinePaths(o, kind) == {o[i].path : i \in {j \in DOMAIN o : o[j].kind = kind}}

\* The two streams hold the same lines the same number of times.
SameLines(o1, o2) ==
    \A kind \in {"new", "changed", "deleted"}, q \in Paths :
        LineCount(o1, kind, q) = LineCount(o2, kind, q)

\* The files the walk of this invocation reaches, and those of them that the
\* patterns do not exclude.
Walked == {todoMsg.relPath : todoMsg \in {WalkAll(fs, cfg)[i] :
                                            i \in DOMAIN WalkAll(fs, cfg)}}

Discovered == {q \in Walked : ~shouldExcludePath(cfg, q)}

Unscoped == cfg.prefix = <<>>

\* This invocation follows one that completed on the same catalog content.
AfterCompleted(update) ==
    /\ prev.ran
    /\ prev.status = "exited"
    /\ prev.cfg.update = update

\* The rows of catalog t that lie in none of the scopes.
OutOfScope(t, prefixes) ==
    {q \in DOMAIN t : \A i \in DOMAIN prefixes : ~InScope(q, prefixes[i])}

\* The invocation has ended normally (main returned).
Completed == status = "exited"

\* ------------------------------------------------------------------ claims

\* C1: in an unscoped run that completes, in either mode, "new: p" is
\* written iff p is a non-excluded discovered path with no row in the
\* run-start catalog, "deleted: p" iff p has a row in the run-start catalog
\* and is not a non-excluded discovered path, "changed: p" only for
\* discovered paths that have a row, and no path is on more than one line.
C1_SetDifference ==
    (Completed /\ Unscoped) =>
        /\ LinePaths(out, "new") = Discovered \ DOMAIN dbStart
        /\ LinePaths(out, "deleted") = DOMAIN dbStart \ Discovered
        /\ LinePaths(out, "changed") \subseteq Discovered \cap DOMAIN dbStart
        /\ \A i, j \in DOMAIN out : i # j => out[i].path # out[j].path

\* An unscoped run has completed with a new line, a deleted line for a row
\* whose file is gone and a deleted line for a row whose file is excluded.
C1_Witness ==
    /\ Completed /\ Unscoped
    /\ LinePaths(out, "new") # {}
    /\ LinePaths(out, "deleted") \ Walked # {}
    /\ LinePaths(out, "deleted") \cap Walked # {}

\* C2: with persistence off, whatever messages dbUpdateWorker processes
\* (insert, update, mark, sweep) and however the run ends, the committed
\* catalog stays what it was when the run started: paths, sizes, checksums
\* and visited flags.
C2_DryRunCatalogUnchanged == ~cfg.update => db = dbStart

\* A dry run has completed after its transaction inserted a row, changed a
\* row and swept.
C2_Witness ==
    /\ ~cfg.update /\ Completed /\ txState = "rolledback"
    /\ DOMAIN tx # DOMAIN db
    /\ \E q \in DOMAIN tx \cap DOMAIN db : tx[q].size # db[q].size
    /\ stats.numFilesDeleted > 0

C4_DryRunPurity ==
    (AfterCompleted(FALSE) /\ cfg.update /\ Completed
        /\ NonOverlapping(cfg.prefix)) =>
        SameLines(prev.out, out)

\* C5: when an update run has completed and the tool is run again with
\* -update on the unchanged folder, with scopes that do not overlap, the
\* second run writes no line, counts no new, changed or deleted file, counts
\* every discovered file unchanged and leaves the rows as they were.
C5_Idempotence ==
    (AfterCompleted(TRUE) /\ cfg.update /\ NonOverlapping(cfg.prefix)) =>
        /\ out = <<>>
        /\ stats.numFilesNew = 0
        /\ stats.numFilesChanged = 0
        /\ stats.numFilesDeleted = 0
        /\ Completed =>
              /\ stats.numFilesUnchanged = Cardinality(Discovered)
              /\ db = dbStart

\* C6: after an unscoped update run that completes, the committed catalog
\* has exactly one row per non-excluded discovered path; its size is the
\* discovered size, its checksum the one computed from the file, or NULL in
\* size-only mode, and its visited flag is 0.
C6_CommittedContent ==
    (Completed /\ cfg.update /\ Unscoped) =>
        /\ DOMAIN db = Discovered
        /\ \A q \in DOMAIN db :
              db[q] = [size |-> fs[q].size,
                       checksum |-> IF cfg.sizeOnly THEN Null ELSE fs[q].md5,
                       visited |-> FALSE]

\* An unscoped update run has completed that inserted a row, rewrote a row
\* whose checksum differed and removed a row.
C6_Witness ==
    /\ Completed /\ cfg.update /\ Unscoped
    /\ DOMAIN db \ DOMAIN dbStart # {}
    /\ DOMAIN dbStart \ DOMAIN db # {}
    /\ \E q \in DOMAIN db \cap DOMAIN dbStart :
            db[q].checksum # dbStart[q].checksum

\* C7: whatever runs a session has seen (committed update runs, dry runs,
\* aborted runs), every row of the committed catalog has visited = 0.
C7_VisitedFlagsClear == \A q \in DOMAIN db : ~db[q].visited

\* The second run of a session works on rows it has marked visited, after a
\* scoped update run that committed a changed catalog.
C7_Witness ==
    /\ AfterCompleted(TRUE)
    /\ cfg.prefix # <<>>
    /\ db # prev.dbStart
    /\ txState = "open"
    /\ \E q \in DOMAIN tx : tx[q].visited

\* C8: a sweep of a non-empty scope P reports as deleted exactly the
\* unvisited entries whose path is P or starts with P + "/", and with
\* -update removes exactly those rows.
C8_SweepBoundary ==
    [][(/\ status = "running" /\ status' = "running"
        /\ dbPc = "loop" /\ chDbUpdate # <<>>
        /\ chDbUpdate' = Tail(chDbUpdate)
        /\ Head(chDbUpdate).opType = "D"
        /\ Head(chDbUpdate).info.relPath # <<>>)
       => LET P     == Head(chDbUpdate).info.relPath
              stale == {q \in DOMAIN tx : ~tx[q].visited /\ InScope(q, P)}
          IN  /\ LinePaths(SubSeq(out', Len(out) + 1, Len(out')), "deleted")
                    = stale
              /\ cfg.update => DOMAIN tx' = DOMAIN tx \ stale
              /\ ~cfg.update => tx' = tx]_vars

\* C9: in a run restricted to scopes, a completed run leaves every row that
\* lies in none of the scopes as it was when the run started, and writes no
\* deleted line for it.
C9_OutOfScopeUntouched ==
    (Completed /\ ~Unscoped) =>
        \A q \in OutOfScope(dbStart, cfg.prefix) :
            /\ q \in DOMAIN db
            /\ db[q] = dbStart[q]
            /\ LineCount(out, "deleted", q) = 0

\* C10: when the catalog has a row for the file a and the folder now has
\* a/x, unknown to the catalog, a completed run over the scope a or over the
\* whole folder writes "deleted: a" once and "new: a/x" once, and with
\* -update the committed catalog has a row for a/x and none for a.
C10_FileToDirectory ==
    (/\ Completed
     /\ cfg.prefix \in {<<>>, <<pA>>}
     /\ pA \in DOMAIN dbStart
     /\ pAX \in DOMAIN fs
     /\ pAX \notin DOMAIN dbStart) =>
        /\ LineCount(out, "deleted", pA) = 1
        /\ \A q \in Discovered :
              InScope(q, pA) => LineCount(out, "new", q) = 1
        /\ cfg.update => (pA \notin DOMAIN db /\ pAX \in DOMAIN db)

\* An update run over the scope a has completed where a was a file in the
\* catalog and a/x is a file of the folder.
C10_Witness ==
    /\ Completed /\ cfg.update
    /\ cfg.prefix = <<pA>>
    /\ pA \in DOMAIN dbStart
    /\ pAX \in DOMAIN fs
    /\ pAX \notin DOMAIN dbStart
    /\ pAX \in DOMAIN db

\* The step in which dbUpdateWorker processes the "D" message for scope P
\* and goes on.
SweepStep(P) ==
    /\ status = "running" /\ status' = "running"
    /\ dbPc = "loop" /\ chDbUpdate # <<>>
    /\ chDbUpdate' = Tail(chDbUpdate)
    /\ Head(chDbUpdate) = DbUpdateMsg("D", P, 0, "")

\* The lines the step has added to the stream.
NewLines == SubSeq(out', Len(out) + 1, Len(out'))

\* The unvisited rows of t that lie under P + "/".
StaleUnder(t, P) ==
    {q \in DOMAIN t : ~t[q].visited /\ HasPrefix(q, P \o <<"/">>)}

\* C11: when a was a directory in the catalog and is now a file, inserted
\* by this run, the sweep of scope a writes a deleted line for every
\* unvisited row under a/, in ascending order, and for nothing else; with
\* -update it leaves the row a with visited = 0, removes the stale rows
\* under a/ and leaves the rows outside a as they were.
C11_DirectoryToFile ==
    [][(/\ SweepStep(pA)
        /\ pA \notin DOMAIN dbStart
        /\ pA \in DOMAIN tx /\ tx[pA].visited
        /\ StaleUnder(tx, pA) # {})
       => /\ NewLines = DeletedLines(SortAsc(StaleUnder(tx, pA)))
          /\ ~cfg.update => tx' = tx
          /\ cfg.update =>
                /\ pA \in DOMAIN tx'
                /\ tx'[pA] = [tx[pA] EXCEPT !.visited = FALSE]
                /\ StaleUnder(tx, pA) \cap DOMAIN tx' = {}
                /\ \A q \in DOMAIN tx :
                      ~InScope(q, pA) => (q \in DOMAIN tx' /\ tx'[q] = tx[q])
      ]_vars

\* The scopes of the run that do not exist in the folder: the walk finds no
\* file for them.
MissingScopes ==
    {cfg.prefix[i] : i \in {j \in DOMAIN cfg.prefix :
                                mustWalkDir(fs, cfg.prefix[j]) = <<>>}}

\* C12: a scope that does not exist in the folder yields no file and no
\* failure (a run whose scopes are all missing never aborts), and the run
\* still sweeps it: when the run has completed, every row of the run-start
\* catalog equal to the scope or under scope + "/" has a deleted line and,
\* with -update, is gone from the committed catalog.
C12_MissingScopeSwept ==
    /\ (~Unscoped /\ \A i \in DOMAIN cfg.prefix : cfg.prefix[i] \in MissingScopes)
          => (status # "fatal" /\ LinePaths(out, "new") = {}
                /\ LinePaths(out, "changed") = {})
    /\ Completed =>
          \A P \in MissingScopes : \A q \in DOMAIN dbStart :
              InScope(q, P) =>
                  /\ LineCount(out, "deleted", q) >= 1
                  /\ cfg.update => q \notin DOMAIN db

\* An update run has completed whose scope a does not exist in the folder
\* while the catalog had the rows a and a/x.
C12_Witness ==
    /\ Completed /\ cfg.update
    /\ cfg.prefix = <<pA>>
    /\ pA \in MissingScopes
    /\ {pA, pAX} \subseteq DOMAIN dbStart

\* The step in which a fileCheckWorker w receives the next file of the walk
\* and classifies it.
CheckStep(w) ==
    /\ status = "running" /\ mainPc = "walk" /\ todo # <<>>
    /\ todo' = Tail(todo)
    /\ wk[w].st = "recv"
    /\ \A v \in Workers \ {w} : wk'[v] = wk[v]

\* The file the next CheckStep classifies has a row of the same size.
SameSizeRow ==
    /\ todo # <<>>
    /\ ~shouldExcludePath(cfg, Head(todo).relPath)
    /\ Head(todo).relPath \in DOMAIN db
    /\ db[Head(todo).relPath].size = Head(todo).size

\* Worker w has the message m to send and has counted the file unchanged
\* without writing a line.
EmitsUnchanged(w, m) ==
    /\ out' = out
    /\ stats' = [stats EXCEPT !.numFilesUnchanged = @ + 1]
    /\ wk'[w] = [st |-> "send", pending |-> <<m>>]

\* C13: in size-only mode a discovered path whose row has the same size is
\* counted unchanged without a line; when the row has a checksum and the
\* run persists, the worker sends "U" with an empty checksum, and
\* dbUpdateWorker, applying it, stores NULL; otherwise the worker sends "M".
C13_SizeOnlyDegradation ==
    [][/\ \A w \in Workers :
            (CheckStep(w) /\ SameSizeRow /\ cfg.sizeOnly) =>
                LET f == Head(todo)
                IN  IF cfg.update /\ db[f.relPath].checksum # Null
                    THEN EmitsUnchanged(w,
                             DbUpdateMsg("U", f.relPath, f.size, ""))
                    ELSE EmitsUnchanged(w,
                             DbUpdateMsg("M", f.relPath, f.size, ""))
       /\ (/\ status = "running" /\ status' = "running"
           /\ dbPc = "loop" /\ chDbUpdate # <<>>
           /\ chDbUpdate' = Tail(chDbUpdate)
           /\ Head(chDbUpdate).opType = "U"
           /\ Head(chDbUpdate).info.checksum = "")
          => LET q == Head(chDbUpdate).info.relPath
             IN  /\ q \in DOMAIN tx'
                 /\ tx'[q] = [size |-> Head(chDbUpdate).info.size,
                              checksum |-> Null, visited |-> TRUE]
      ]_vars

\* In a size-only update run dbUpdateWorker has cleared the checksum of a
\* row whose file has the same size.
C13_Witness ==
    /\ cfg.sizeOnly /\ cfg.update /\ txState = "open"
    /\ \E q \in DOMAIN tx \cap DOMAIN db \cap DOMAIN fs :
          /\ db[q].checksum # Null
          /\ db[q].size = fs[q].size
          /\ tx[q].checksum = Null
          /\ tx[q].visited

\* Worker w has written "changed: p", counted the file changed and has the
\* message m to send.
EmitsChanged(w, p, m) ==
    /\ out' = Append(out, Line("changed", p))
    /\ stats' = [stats EXCEPT !.numFilesChanged = @ + 1]
    /\ wk'[w] = [st |-> "send", pending |-> <<m>>]

\* C14: in digest mode a discovered path whose row has the same size and no
\* checksum is classified changed whenever its checksum can be computed
\* (the read returns as many bytes as the walk reported); the worker sends
\* "U" with the computed checksum when the run persists and "M" otherwise.
C14_AbsentDigestChanged ==
    [][\A w \in Workers :
          (/\ CheckStep(w) /\ SameSizeRow /\ ~cfg.sizeOnly
           /\ db[Head(todo).relPath].checksum = Null
           /\ fs[Head(todo).relPath].n = Head(todo).size) =>
              LET f == Head(todo)
              IN  EmitsChanged(w, f.relPath,
                      DbUpdateMsg(IF cfg.update THEN "U" ELSE "M",
                                  f.relPath, f.size, fs[f.relPath].md5))
      ]_vars

\* In digest mode a file whose row has the same size and no checksum has
\* been classified changed, in a dry run.
C14_Witness ==
    /\ ~cfg.sizeOnly /\ ~cfg.update
    /\ \E q \in DOMAIN db \cap DOMAIN fs :
          /\ db[q].checksum = Null
          /\ db[q].size = fs[q].size
          /\ LineCount(out, "changed", q) = 1

\* ------------------------------------------- the pipeline, one file at a time

\* fileCheckWorker over the files of walk in order, with one worker: the
\* lines, the counters, the messages sent and whether a file ended in
\* logFatal.
RECURSIVE ClassifyAll(_, _, _, _, _)
ClassifyAll(c, catalog, files, walk, acc) ==
    IF walk = <<>> \/ acc.fatal THEN acc
    ELSE LET r == fileCheckOne(c, catalog, files, Head(walk))
         IN  ClassifyAll(c, catalog, files, Tail(walk),
                 [lines |-> acc.lines \o r.lines,
                  stats |-> Bump(acc.stats, r.stat),
                  cmds  |-> IF r.fatal THEN acc.cmds ELSE acc.cmds \o r.cmds,
                  fatal |-> r.fatal])

\* dbUpdateWorker over the messages in order.
RECURSIVE ApplyAll(_, _, _)
ApplyAll(c, msgs, acc) ==
    IF msgs = <<>> \/ acc.fatal THEN acc
    ELSE LET r == ApplyMsg(c, acc.tx, Head(msgs))
         IN  ApplyAll(c, Tail(msgs),
                 [tx      |-> r.tx,
                  lines   |-> acc.lines \o DeletedLines(r.deleted),
                  cleared |-> acc.cleared + r.cleared,
                  fatal   |-> r.fatal])

\* main() with one fileCheckWorker on the catalog and folder given: the
\* lines written, the committed catalog afterwards and how the process ends.
SeqRun(catalog, files, c) ==
    LET cls    == ClassifyAll(c, catalog, files, WalkAll(files, c),
                      [lines |-> <<>>, stats |-> ZeroStats, cmds |-> <<>>,
                       fatal |-> FALSE])
        sweeps == [i \in DOMAIN SweepList(c) |->
                      DbUpdateMsg("D", SweepList(c)[i], 0, "")]
        app    == ApplyAll(c, cls.cmds \o sweeps,
                      [tx |-> catalog, lines |-> <<>>, cleared |-> 0,
                       fatal |-> FALSE])
        st     == [cls.stats EXCEPT !.numVisitedFlagsCleared = app.cleared]
        ok     == ~cls.fatal /\ ~app.fatal /\ verifyStats(c, st)
    IN  [out    |-> cls.lines \o (IF cls.fatal THEN <<>> ELSE app.lines),
         db     |-> IF ok THEN EndTx(c, catalog, app.tx).db ELSE catalog,
         stats  |-> [st EXCEPT !.numFilesDeleted = Len(app.lines)],
         status |-> IF ok THEN "exited" ELSE "fatal"]

\* The discovered files that match the exclude expression and not the
\* include expression.
ExcludedFiles ==
    {q \in Walked : q \in cfg.excludeRe /\ q \notin cfg.includeRe}

\* The folder without the excluded files, scanned with no exclude
\* expression.
WithoutExcluded ==
    SeqRun(dbStart, [q \in DOMAIN fs \ ExcludedFiles |-> fs[q]],
           [cfg EXCEPT !.excludeRe = {}, !.includeRe = {}])

\* The files of the walk that workers have received so far.
Received == SubSeq(WalkAll(fs, cfg), 1, Len(WalkAll(fs, cfg)) - Len(todo))

\* The messages on their way to dbUpdateWorker.
InFlight ==
    {chDbUpdate[i] : i \in DOMAIN chDbUpdate}
        \cup UNION {{wk[w].pending[i] : i \in DOMAIN wk[w].pending} :
                    w \in Workers}

\* C15: a discovered file that matches the exclude expression and not the
\* include expression gets no new or changed line, no "I", "U" or "M"
\* message and no count
\* (the new, changed and unchanged counters count received files that are
\* not excluded); and when the run has completed, its lines and its
\* committed catalog are those of a run on the folder without the excluded
\* files.
C15_ExcludedAsAbsent ==
    /\ \A q \in ExcludedFiles :
          /\ LineCount(out, "new", q) = 0
          /\ LineCount(out, "changed", q) = 0
          /\ \A m \in InFlight : m.opType = "D" \/ m.info.relPath # q
    /\ stats.numFilesNew + stats.numFilesChanged + stats.numFilesUnchanged
          <= Cardinality({i \in DOMAIN Received :
                            Received[i].relPath \notin ExcludedFiles})
    /\ Completed =>
          /\ WithoutExcluded.status = "exited"
          /\ SameLines(out, WithoutExcluded.out)
          /\ db = WithoutExcluded.db

\* An update run has completed that skipped an excluded file whose row it
\* reported deleted and removed.
C15_Witness ==
    /\ Completed /\ cfg.update
    /\ ExcludedFiles # {}
    /\ \E q \in ExcludedFiles :
          /\ q \in DOMAIN dbStart
          /\ q \notin DOMAIN db
          /\ LineCount(out, "deleted", q) = 1

\* ------------------------------------------------------ the pattern lists

\* Longest path and longest pattern list explored for the pattern lists.
MaxPathLen == 3
MaxPatterns == 2

\* regexp.QuoteMeta: a backslash before every metacharacter.
MetaChars == {"\\", ".", "+", "*", "?", "(", ")", "|", "[", "]", "{", "}",
              "^", "$"}

RECURSIVE QuoteMeta(_)
QuoteMeta(str) ==
    IF str = <<>> THEN <<>>
    ELSE (IF Head(str) \in MetaChars THEN <<"\\", Head(str)>>
          ELSE <<Head(str)>>) \o QuoteMeta(Tail(str))

\* The loop of getRegexFromList: "(" + pattern + ")|" for every pattern.
RECURSIVE JoinPatterns(_)
JoinPatterns(patterns) ==
    IF patterns = <<>> THEN <<>>
    ELSE <<"(">> \o Head(patterns) \o <<")", "|">>
            \o JoinPatterns(Tail(patterns))

\* getRegexFromList: the text of the regular expression it compiles.
getRegexFromList(patterns) ==
    LET regStr == <<"^">> \o JoinPatterns(patterns)
        cut    == IF regStr[Len(regStr)] = "|"
                  THEN SubSeq(regStr, 1, Len(regStr) - 1) ELSE regStr
    IN  cut \o <<"$">>

\* The alternatives of a regular expression: its text split at every "|"
\* outside parentheses (alternation binds weaker than concatenation and
\* than the anchors); cur is the alternative being read, done those read.
RECURSIVE SplitAlternatives(_, _, _, _)
SplitAlternatives(re, depth, cur, done) ==
    IF re = <<>> THEN Append(done, cur)
    ELSE LET c == Head(re)
         IN  IF c = "\\" /\ Len(re) >= 2
             THEN SplitAlternatives(Tail(Tail(re)), depth,
                                    cur \o <<c, re[2]>>, done)
             ELSE IF c = "|" /\ depth = 0
             THEN SplitAlternatives(Tail(re), depth, <<>>, Append(done, cur))
             ELSE SplitAlternatives(Tail(re),
                      IF c = "(" THEN depth + 1
                      ELSE IF c = ")" THEN depth - 1 ELSE depth,
                      Append(cur, c), done)

\* Whether the concatenation alt (anchors, groups of literals, escaped and
\* plain characters) matches str from position pos on.
RECURSIVE MatchAt(_, _, _)
MatchAt(alt, str, pos) ==
    IF alt = <<>> THEN TRUE
    ELSE LET c == Head(alt)
         IN  IF c = "^" THEN pos = 1 /\ MatchAt(Tail(alt), str, pos)
             ELSE IF c = "$"
                 THEN pos = Len(str) + 1 /\ MatchAt(Tail(alt), str, pos)
             ELSE IF c \in {"(", ")"} THEN MatchAt(Tail(alt), str, pos)
             ELSE IF c = "\\" /\ Len(alt) >= 2
                 THEN /\ pos <= Len(str) /\ str[pos] = alt[2]
                      /\ MatchAt(Tail(Tail(alt)), str, pos + 1)
             ELSE /\ pos <= Len(str) /\ str[pos] = c
                  /\ MatchAt(Tail(alt), str, pos + 1)

\* (*regexp.Regexp).MatchString: some alternative matches somewhere in str.
MatchString(re, str) ==
    LET alts == SplitAlternatives(re, 0, <<>>, <<>>)
    IN  \E i \in DOMAIN alts : \E pos \in 1..(Len(str) + 1) :
            MatchAt(alts[i], str, pos)

\* flagsToConfig: the exclude list handed to getRegexFromList; the database
\* file and its journal are appended when -dbfile holds no path separator.
ExcludeListOf(f) ==
    IF f.containPathSep THEN f.excludeList
    ELSE f.excludeList \o <<QuoteMeta(f.dbFile),
                            QuoteMeta(f.dbFile \o
                                <<"-", "j", "o", "u", "r", "n", "a", "l">>)>>

\* The inputs explored: patterns without metacharacters, a database file
\* name with one, and the paths over the characters they use.
dbFileName == <<".", "d">>

PatternChoices == {<<"a">>, <<"d">>, <<"a", "d">>}

PatternLists == UNION {[1..k -> PatternChoices] : k \in 0..MaxPatterns}

PatternPaths ==
    UNION {[1..k -> {"a", "d", "."}] : k \in 1..MaxPathLen}
        \cup {dbFileName \o <<"-", "j", "o", "u", "r", "n", "a", "l">>}

\* The pattern lists alone: prev holds the flags the process was started
\* with, cfg the configuration flagsToConfig makes of them, and out the
\* outcome of the two MatchString calls of shouldExcludePath for one path.
InitPatterns ==
    \E ex \in PatternLists, inc \in PatternLists, sep \in BOOLEAN :
        /\ prev = [ran |-> FALSE, excludeList |-> ex, includeList |-> inc,
                   dbFile |-> dbFileName, containPathSep |-> sep]
        /\ cfg = [update |-> FALSE, sizeOnly |-> FALSE, args |-> <<>>,
                  prefix |-> <<>>, excludeRe |-> <<>>, includeRe |-> <<>>]
        /\ mainPc = "flags"
        /\ db = EmptyCatalog
        /\ fs = EmptyCatalog
        /\ todo = <<>>
        /\ wk = [w \in Workers |-> [st |-> "stopped", pending |-> <<>>]]
        /\ chDbUpdate = <<>>
        /\ sweepIdx = 0
        /\ dbPc = "stopped"
        /\ tx = EmptyCatalog
        /\ txState = "none"
        /\ out = <<>>
        /\ stats = ZeroStats
        /\ status = "running"
        /\ dbStart = EmptyCatalog
        /\ runNo = 1

\* flagsToConfig: cfg.excludeRe and cfg.includeRe.
FlagsToConfig ==
    /\ mainPc = "flags"
    /\ mainPc' = "ready"
    /\ cfg' = [cfg EXCEPT !.excludeRe = getRegexFromList(ExcludeListOf(prev)),
                          !.includeRe = getRegexFromList(prev.includeList)]
    /\ UNCHANGED <<db, fs, todo, wk, chDbUpdate, sweepIdx, dbPc, tx, txState,
                   out, stats, status, dbStart, runNo, prev>>

\* shouldExcludePath asks both expressions about a path.
MatchPath ==
    /\ mainPc = "ready"
    /\ mainPc' = "matched"
    /\ \E relPath \in PatternPaths :
          out' = <<[path    |-> relPath,
                    exclude |-> MatchString(cfg.excludeRe, relPath),
                    include |-> MatchString(cfg.includeRe, relPath)]>>
    /\ UNCHANGED <<db, cfg, fs, todo, wk, chDbUpdate, sweepIdx, dbPc, tx,
                   txState, stats, status, dbStart, runNo, prev>>

NextPatterns == FlagsToConfig \/ MatchPath

SpecPatterns == InitPatterns /\ [][NextPatterns]_vars

\* The pattern alone, wrapped in a leading "^" and a trailing "$", matches
\* str.
FullMatch(pattern, str) ==
    MatchString(<<"^", "(">> \o pattern \o <<")", "$">>, str)

MatchesSome(patterns, str) ==
    \E i \in DOMAIN patterns : FullMatch(patterns[i], str)

\* C16: a path matches the exclude list (with the database-file entries
\* added automatically) or the include list iff some single pattern of the
\* list matches the entire path.
C16_PatternAnchoring ==
    mainPc = "matched" =>
        /\ out[1].exclude <=> MatchesSome(ExcludeListOf(prev), out[1].path)
        /\ out[1].include <=> MatchesSome(prev.includeList, out[1].path)

\* The non-excluded files the walk of this run hands out more than once:
\* files under two of the requested scopes.
DuplicatedFiles ==
    LET walk == WalkAll(fs, cfg)
    IN  {q \in Discovered :
            Cardinality({i \in DOMAIN walk : walk[i].relPath = q}) > 1}

TrailingArgs == {i \in DOMAIN cfg.args : HasTrailingSlash(cfg.args[i])}

\* C18 as stated: when a scope argument ends with the path separator the
\* run is rejected: it never completes, the scope is not swept and nothing
\* of the run is committed.
C18_TrailingScopeRejected ==
    TrailingArgs # {} => ~Completed /\ db = dbStart

\* C18, amended: the sweep step rejects a scope that ends with the
\* separator without touching the transaction, but a scope argument of the
\* command line is cleaned first: the scope the run walks and sweeps is the
\* argument without its trailing separator, no sweep message carries a
\* trailing separator, and a completed update run has reported and removed
\* the stale rows of the cleaned scope.
C18_TrailingScopeCleaned ==
    \A i \in TrailingArgs :
        LET raw == mustHandleDeletedFiles(cfg, tx, cfg.args[i])
            P   == cfg.prefix[i]
        IN  /\ raw.fatal /\ raw.tx = tx /\ raw.deleted = <<>>
            /\ P = cleanPrefix(cfg.args[i])
            /\ ~HasTrailingSlash(P)
            /\ \A k \in DOMAIN chDbUpdate :
                  chDbUpdate[k].opType = "D"
                      => ~HasTrailingSlash(chDbUpdate[k].info.relPath)
            /\ Completed /\ cfg.update =>
                  \A q \in DOMAIN dbStart :
                      InScope(q, P) /\ q \notin Discovered =>
                          /\ q \notin DOMAIN db
                          /\ LineCount(out, "deleted", q) = 1

C18_Witness ==
    /\ TrailingArgs # {}
    /\ Completed /\ cfg.update /\ txState = "committed"
    /\ \E q \in DOMAIN dbStart :
          /\ InScope(q, cfg.prefix[1]) /\ q \notin DOMAIN db
          /\ LineCount(out, "deleted", q) = 1

\* ------------------------------------------------------------------- C19

\* A step of dbUpdateWorker that stores a row: an insert or an update that
\* succeeds.
StoreStep ==
    /\ status = "running" /\ dbPc = "loop" /\ chDbUpdate # <<>>
    /\ Head(chDbUpdate).opType \in {"I", "U"}
    /\ chDbUpdate' = Tail(chDbUpdate)
    /\ status' = "running"

\* C19 as stated: an absent digest is distinct from the empty string. The
\* lookup after storing the empty string as a row's digest differs from the
\* lookup of the same row holding an absent digest.
C19_AbsentDistinctFromEmpty ==
    [][StoreStep /\ Head(chDbUpdate).info.checksum = "" =>
          LET q == Head(chDbUpdate).info.relPath
          IN  mustQueryFile(tx', q)
                  # mustQueryFile([tx' EXCEPT ![q].checksum = Null], q)]_vars

\* C19, amended: the empty string is the absent digest. An insert or update
\* given the empty string stores an absent digest, one given another digest
\* stores that digest, and the lookup that follows returns the digest that
\* was given, the empty string for an absent one.
C19_EmptyDigestIsAbsent ==
    [][StoreStep =>
          LET file == Head(chDbUpdate).info
          IN  /\ file.relPath \in DOMAIN tx'
              /\ tx'[file.relPath].checksum
                     = (IF file.checksum = "" THEN Null ELSE file.checksum)
              /\ mustQueryFile(tx', file.relPath).found
              /\ mustQueryFile(tx', file.relPath).info.checksum
                     = file.checksum
              /\ mustQueryFile(tx', file.relPath).info
                     = mustQueryFile([tx' EXCEPT ![file.relPath].checksum =
                                         ChecksumParam(file.checksum)],
                                     file.relPath).info]_vars

C19_Witness ==
    /\ cfg.update /\ cfg.sizeOnly /\ status = "running"
    /\ \E q \in DOMAIN tx \cap DOMAIN dbStart :
          /\ tx[q].visited /\ tx[q].checksum = Null
          /\ dbStart[q].checksum = "D1"
    /\ \E q \in DOMAIN tx \ DOMAIN dbStart : tx[q].checksum = Null

\* ------------------------------------------------------------------- C20

\* The range statements on their own: a files table whose paths hold the
\* characters LIKE treats specially, a prefix, and one of the three
\* statements applied to it. prev holds the prefix, dbStart the table before
\* the statement.
LikePaths ==
    { <<"a", "/", "x">>, <<"A", "/", "x">>, <<"%", "/", "x">>,
      <<"_", "/", "x">>, <<"\\", "/", "x">>, <<"a", "b">> }

LikePrefixes ==
    { <<>>, <<"a", "/">>, <<"%", "/">>, <<"_", "/">>, <<"\\", "/">> }

LikeCatalogs ==
    UNION {[D -> [size : {1}, checksum : {"D1"}, visited : BOOLEAN]] :
           D \in SUBSET LikePaths}

InitLike ==
    \E catalog \in LikeCatalogs, P \in LikePrefixes :
        /\ prev = [ran |-> FALSE, prefix |-> P]
        /\ db = catalog
        /\ dbStart = catalog
        /\ tx = catalog
        /\ txState = "open"
        /\ cfg = [update |-> TRUE, sizeOnly |-> FALSE, args |-> <<>>,
                  prefix |-> <<>>, excludeRe |-> {}, includeRe |-> {}]
        /\ mainPc = "ready"
        /\ fs = EmptyCatalog
        /\ todo = <<>>
        /\ wk = [w \in Workers |-> [st |-> "stopped", pending |-> <<>>]]
        /\ chDbUpdate = <<>>
        /\ sweepIdx = 0
        /\ dbPc = "loop"
        /\ out = <<>>
        /\ stats = ZeroStats
        /\ status = "running"
        /\ runNo = 1

\* mustQueryUnvisitedFiles(tx, prefix, procUnvisitedFile)
RangeQuery ==
    /\ mainPc = "ready"
    /\ mainPc' = "queried"
    /\ LET q == mustQueryUnvisitedFiles(tx, prev.prefix)
       IN  /\ out' = DeletedLines(q.files)
           /\ stats' = [stats EXCEPT !.numFilesDeleted = Len(q.files)]
           /\ status' = IF q.fatal THEN "fatal" ELSE status
    /\ UNCHANGED <<db, cfg, fs, todo, wk, chDbUpdate, sweepIdx, dbPc, tx,
                   txState, dbStart, runNo, prev>>

\* mustDeleteUnvisitedFiles(tx, prefix, numDeleted) after the query has
\* counted the rows.
RangeDelete ==
    /\ mainPc = "ready"
    /\ mainPc' = "deleted"
    /\ LET q   == mustQueryUnvisitedFiles(tx, prev.prefix)
           del == mustDeleteUnvisitedFiles(tx, prev.prefix, Len(q.files))
       IN  /\ tx' = del.tx
           /\ status' = IF del.fatal THEN "fatal" ELSE status
    /\ UNCHANGED <<db, cfg, fs, todo, wk, chDbUpdate, sweepIdx, dbPc,
                   txState, out, stats, dbStart, runNo, prev>>

\* numCleared = mustClearVisitedFlags(tx, prefix)
RangeClear ==
    /\ mainPc = "ready"
    /\ mainPc' = "cleared"
    /\ LET clr == mustClearVisitedFlags(tx, prev.prefix)
       IN  /\ tx' = clr.tx
           /\ stats' = [stats EXCEPT !.numVisitedFlagsCleared =
                          mustClearVisitedFlagsCount(tx, prev.prefix)]
           /\ status' = IF clr.fatal THEN "fatal" ELSE status
    /\ UNCHANGED <<db, cfg, fs, todo, wk, chDbUpdate, sweepIdx, dbPc,
                   txState, out, dbStart, runNo, prev>>

NextLike == RangeQuery \/ RangeDelete \/ RangeClear

SpecLike == InitLike /\ [][NextLike]_vars

\* The rows of t whose path starts with the string P.
LiteralRows(t, P) == {q \in DOMAIN t : HasPrefix(q, P)}

\* C20: for a prefix that is empty or ends with "/", the three range
\* statements select exactly the rows whose path starts with the prefix as
\* a literal string: the query reports the unvisited ones in ascending
\* order, the delete removes the unvisited ones and nothing else, and the
\* clear resets the visited ones, counts them and changes nothing else.
C20_LiteralPrefix ==
    LET sel       == LiteralRows(dbStart, prev.prefix)
        unvisited == {q \in sel : ~dbStart[q].visited}
        visited   == {q \in sel : dbStart[q].visited}
    IN  /\ mainPc # "ready" => status = "running"
        /\ mainPc = "queried" => out = DeletedLines(SortAsc(unvisited))
        /\ mainPc = "deleted" => tx = Without(dbStart, unvisited)
        /\ mainPc = "cleared" =>
              /\ tx = [q \in DOMAIN dbStart |->
                         IF q \in visited
                         THEN [dbStart[q] EXCEPT !.visited = FALSE]
                         ELSE dbStart[q]]
              /\ stats.numVisitedFlagsCleared = Cardinality(visited)

\* ------------------------------------------------------------------- C21

\* The file the next CheckStep classifies is not excluded and has no row.
NewPath ==
    /\ todo # <<>>
    /\ ~shouldExcludePath(cfg, Head(todo).relPath)
    /\ Head(todo).relPath \notin DOMAIN db

\* mustCalcChecksum returns for the file the next CheckStep classifies:
\* size-only mode, or the read returns as many bytes as the walk reported.
ChecksumReturns ==
    cfg.sizeOnly \/ fs[Head(todo).relPath].n = Head(todo).size

\* The checksum mustCalcChecksum returns for the walk message f.
Computed(f) == IF cfg.sizeOnly THEN "" ELSE fs[f.relPath].md5

\* C21: a discovered path without a row is classified new in both modes:
\* one line "new: p" and the new counter + 1. With -update the worker has
\* exactly one "I" message to send, carrying the discovered size and the
\* computed checksum (empty in size-only mode); without -update no worker
\* has anything to send and nothing enters the channel.
C21_NewFile ==
    [][\A w \in Workers :
          (CheckStep(w) /\ NewPath) =>
              LET f == Head(todo)
              IN  /\ out' = Append(out, Line("new", f.relPath))
                  /\ stats' = [stats EXCEPT !.numFilesNew = @ + 1]
                  /\ chDbUpdate' = chDbUpdate
                  /\ ~cfg.update => wk' = wk /\ status' = "running"
                  /\ (cfg.update /\ ChecksumReturns) =>
                        /\ status' = "running"
                        /\ wk'[w] =
                              [st |-> "send",
                               pending |-> <<DbUpdateMsg("I", f.relPath,
                                                 f.size, Computed(f))>>]
      ]_vars

\* An update run in digest mode has classified a file without a row new and
\* a worker holds its "I" message with the file's checksum.
C21_Witness ==
    /\ cfg.update /\ ~cfg.sizeOnly /\ status = "running"
    /\ \E w \in Workers :
          /\ wk[w].st = "send"
          /\ Len(wk[w].pending) = 1
          /\ LET m == wk[w].pending[1]
             IN  /\ m.opType = "I"
                 /\ m.info.relPath \notin DOMAIN db
                 /\ m.info.checksum = fs[m.info.relPath].md5
                 /\ m.info.size = fs[m.info.relPath].size
                 /\ LineCount(out, "new", m.info.relPath) = 1
                 /\ stats.numFilesNew >= 1

\* ------------------------------------------------------------------- C22

\* The file the next CheckStep classifies has a row of another size.
OtherSizeRow ==
    /\ todo # <<>>
    /\ ~shouldExcludePath(cfg, Head(todo).relPath)
    /\ Head(todo).relPath \in DOMAIN db
    /\ db[Head(todo).relPath].size # Head(todo).size

\* dbUpdateWorker applies a message of the given type without a fatal error.
ApplyStep(op) ==
    /\ status = "running" /\ status' = "running"
    /\ dbPc = "loop" /\ chDbUpdate # <<>>
    /\ chDbUpdate' = Tail(chDbUpdate)
    /\ Head(chDbUpdate).opType = op

\* C22: a discovered path whose row has another size is classified changed
\* in every mode: one line "changed: p" and the changed counter + 1. With
\* -update the worker has exactly one "U" message with the new size and the
\* computed checksum; without -update it has exactly one "M" message, no
\* checksum is computed (a short read cannot stop the run), and the "M"
\* message, when applied, sets the visited flag and leaves the stored size
\* and checksum.
C22_SizeChanged ==
    [][/\ \A w \in Workers :
            (CheckStep(w) /\ OtherSizeRow) =>
                LET f == Head(todo)
                IN  /\ chDbUpdate' = chDbUpdate
                    /\ ~cfg.update =>
                          /\ status' = "running"
                          /\ EmitsChanged(w, f.relPath,
                                 DbUpdateMsg("M", f.relPath, f.size, ""))
                    /\ (cfg.update /\ ChecksumReturns) =>
                          /\ status' = "running"
                          /\ EmitsChanged(w, f.relPath,
                                 DbUpdateMsg("U", f.relPath, f.size,
                                             Computed(f)))
       /\ ApplyStep("M") =>
            LET q == Head(chDbUpdate).info.relPath
            IN  /\ q \in DOMAIN tx /\ q \in DOMAIN tx'
                /\ tx' = [tx EXCEPT ![q].visited = TRUE]
      ]_vars

\* A dry run has classified a file whose row has another size changed and
\* dbUpdateWorker has marked the row, which keeps its stale size.
C22_Witness ==
    /\ ~cfg.update /\ status = "running"
    /\ \E q \in DOMAIN tx \cap DOMAIN fs :
          /\ q \in DOMAIN db
          /\ db[q].size # fs[q].size
          /\ fs[q].n # fs[q].size
          /\ tx[q].visited
          /\ tx[q].size = db[q].size
          /\ LineCount(out, "changed", q) = 1
          /\ stats.numFilesChanged >= 1

\* ------------------------------------------------------------------- C23

\* C23: in digest mode, for a discovered path whose row has the same size
\* and whose checksum can be computed, the computed checksum is compared
\* with the stored one. Equal: the file is counted unchanged, no line is
\* written and the worker has exactly one "M" message, in both modes.
\* Different: one line "changed: p", the changed counter + 1 and exactly one
\* message, "U" with the computed checksum with -update and "M" without.
C23_SameSizeDigest ==
    [][\A w \in Workers :
          (/\ CheckStep(w) /\ SameSizeRow /\ ~cfg.sizeOnly
           /\ fs[Head(todo).relPath].n = Head(todo).size) =>
              LET f      == Head(todo)
                  sum    == fs[f.relPath].md5
                  stored == db[f.relPath].checksum
              IN  /\ status' = "running"
                  /\ chDbUpdate' = chDbUpdate
                  /\ stored = sum =>
                        EmitsUnchanged(w,
                            DbUpdateMsg("M", f.relPath, f.size, sum))
                  /\ stored # sum =>
                        EmitsChanged(w, f.relPath,
                            DbUpdateMsg(IF cfg.update THEN "U" ELSE "M",
                                        f.relPath, f.size, sum))
      ]_vars

\* In digest mode one file with the stored checksum has been counted
\* unchanged without a line and another, with a different stored checksum,
\* has been classified changed, in a dry run.
C23_Witness ==
    /\ ~cfg.sizeOnly /\ ~cfg.update /\ status = "running"
    /\ stats.numFilesUnchanged = 1 /\ stats.numFilesChanged = 1
    /\ \E q, r \in DOMAIN db \cap DOMAIN fs :
          /\ db[q].size = fs[q].size /\ db[q].checksum = fs[q].md5
          /\ LineCount(out, "changed", q) = 0
          /\ db[r].size = fs[r].size
          /\ db[r].checksum \notin {Null, fs[r].md5}
          /\ LineCount(out, "changed", r) = 1

\* ------------------------------------------------------------------- C24

\* The positions of main: the walk, after close(chFileCheck), after
\* close(chDbUpdate), returned.
FileCheckClosed == mainPc \in {"wait", "waitdb", "exit"}

DbUpdateClosed == mainPc \in {"waitdb", "exit"}

\* The "D" messages in the channel, in order.
SweepsIn(ch) == SelectSeq(ch, LAMBDA m : m.opType = "D")

\* The transaction has been committed or rolled back.
TxEnded == txState \in {"committed", "rolledback"}

\* C24: the walk is over and chFileCheck closed before any fileCheckWorker
\* ends; every fileCheckWorker has ended before the first "D" message is
\* sent; the "D" messages are sent one per prefix in the order of the
\* prefixes (one with the empty prefix when there is none), all of them
\* before chDbUpdate is closed; and dbUpdateWorker has read every message of
\* the closed channel before it commits or rolls back.
C24_ShutdownSequencing ==
    /\ [](/\ (\E w \in Workers : wk[w].st = "stopped") =>
                 todo = <<>> /\ FileCheckClosed
          /\ (sweepIdx > 0 \/ SweepsIn(chDbUpdate) # <<>>) =>
                 \A w \in Workers : wk[w].st = "stopped"
          /\ sweepIdx <= Len(SweepList(cfg))
          /\ Len(SweepsIn(chDbUpdate)) <= sweepIdx
          /\ DbUpdateClosed => sweepIdx = Len(SweepList(cfg))
          /\ TxEnded =>
                 /\ DbUpdateClosed
                 /\ chDbUpdate = <<>>
                 /\ \A w \in Workers : wk[w].pending = <<>>)
    /\ [][/\ Len(SweepsIn(chDbUpdate')) > Len(SweepsIn(chDbUpdate)) =>
                /\ ~DbUpdateClosed
                /\ sweepIdx' = sweepIdx + 1
                /\ chDbUpdate' = Append(chDbUpdate,
                       DbUpdateMsg("D", SweepList(cfg)[sweepIdx'], 0, ""))
          /\ sweepIdx' # sweepIdx =>
                Len(SweepsIn(chDbUpdate')) = Len(SweepsIn(chDbUpdate)) + 1
          /\ (TxEnded' /\ ~TxEnded) => chDbUpdate = <<>> /\ DbUpdateClosed
         ]_vars

\* A run with two prefixes that discovered a file has sent both "D"
\* messages, closed the channel and committed.
C24_Witness ==
    /\ Len(cfg.prefix) = 2 /\ sweepIdx = 2
    /\ stats.numFilesNew >= 1
    /\ txState = "committed" /\ Completed

\* ------------------------------------------------------------------- C25

\* Every "I", "U" and "M" message precedes every "D" message in the channel,
\* and no worker holds a message once a "D" message has been sent.
MarksBeforeSweeps ==
    /\ \A i, j \in DOMAIN chDbUpdate :
          (i < j /\ chDbUpdate[i].opType = "D")
              => chDbUpdate[j].opType = "D"
    /\ sweepIdx > 0 => \A w \in Workers : wk[w].pending = <<>>

\* C25: for any interleaving of the workers, every "I", "U" and "M" message
\* of the run is applied before any "D" message is applied, so, the scopes
\* not overlapping, a path the run has discovered is never reported
\* deleted.
C25_MarkBeforeSweep ==
    /\ MarksBeforeSweeps
    /\ NonOverlapping(cfg.prefix) =>
          \A q \in Discovered : LineCount(out, "deleted", q) = 0

\* ------------------------------------------------------------------- C26

\* dbUpdateWorker takes the next message from chDbUpdate: the steps of
\* DbApply, whatever the message does.
DbRead ==
    /\ status = "running"
    /\ dbPc = "loop"
    /\ chDbUpdate # <<>>
    /\ chDbUpdate' = Tail(chDbUpdate)

\* The steps of main and of the fileCheckWorkers, and those of
\* dbUpdateWorker outside its loop.
NextOther ==
    \/ \E w \in Workers : FileCheck(w)
    \/ \E w \in Workers : SendCmd(w)
    \/ CloseFileCheck
    \/ \E w \in Workers : WorkerStop(w)
    \/ SendSweep
    \/ CloseDbUpdate
    \/ DbStart
    \/ DbFinish
    \/ MainExit

\* One run under a fair scheduler: a goroutine that can take a step is not
\* left waiting forever.
SpecFair == Spec /\ WF_vars(NextOther) /\ WF_chDbUpdate(DbRead)

\* Every fileCheckWorker and dbUpdateWorker have returned and the
\* transaction has been committed (with -update) or rolled back (without).
AllTerminated ==
    /\ \A w \in Workers : wk[w].st = "stopped"
    /\ dbPc = "stopped"
    /\ txState = (IF cfg.update THEN "committed" ELSE "rolledback")

NumClassified ==
    stats.numFilesNew + stats.numFilesChanged + stats.numFilesUnchanged

\* The counters are what the end of the run requires of them.
StatsConsistent ==
    IF cfg.update THEN stats.numVisitedFlagsCleared = NumClassified
    ELSE stats.numVisitedFlagsCleared = 0

\* dbUpdateWorker has left its loop on the closed, empty channel and takes
\* its last step.
EndOfStream ==
    /\ status = "running" /\ dbPc = "loop"
    /\ chDbUpdate = <<>> /\ mainPc = "waitdb"
    /\ <<dbPc, status, txState, db>>' # <<dbPc, status, txState, db>>

\* C27: after the last message, the transaction is committed (-update) or
\* rolled back (dry run) only when the counters are consistent: cleared
\* flags = new + changed + unchanged with -update, cleared flags = 0 without.
\* With any other counters the run ends in a fatal error and neither commit
\* nor rollback is performed.
C27_VerifierGate ==
    /\ [](TxEnded => StatsConsistent)
    /\ [][EndOfStream =>
            IF StatsConsistent
            THEN /\ status' = "running" /\ dbPc' = "stopped"
                 /\ txState' = (IF cfg.update THEN "committed"
                                ELSE "rolledback")
                 /\ db' = (IF cfg.update THEN tx ELSE db)
            ELSE /\ status' = "fatal"
                 /\ txState' = txState /\ db' = db /\ dbPc' = dbPc
         ]_vars

\* An update run whose messages marked a row and swept it has committed
\* with one flag cleared for one file classified.
C27_Witness ==
    /\ cfg.update /\ txState = "committed"
    /\ stats.numVisitedFlagsCleared = 1 /\ NumClassified = 1
    /\ db # dbStart

\* ------------------------------------------------------------------- C28

\* C28: in a run whose prefixes do not overlap (or that has none), on any
\* catalog whose flags are all clear, in every mode and interleaving, the
\* check at the end of the stream passes: the counters are consistent and
\* dbUpdateWorker goes on to commit or roll back.
C28_VerifierPasses ==
    [][(EndOfStream /\ NonOverlapping(cfg.prefix)) =>
          /\ StatsConsistent
          /\ status' = "running"
          /\ TxEnded']_vars

\* A dry run that discovered a new file and a changed one has passed the
\* check and rolled back.
C28_Witness ==
    /\ ~cfg.update /\ NonOverlapping(cfg.prefix) /\ Len(cfg.prefix) = 2
    /\ txState = "rolledback"
    /\ stats.numFilesNew >= 1 /\ stats.numFilesChanged >= 1
    /\ stats.numVisitedFlagsCleared = 0

\* ------------------------------------------------------------------- C29

\* dbUpdateWorker takes a "D" message whose prefix has no trailing slash.
SweepApply ==
    /\ status = "running" /\ dbPc = "loop" /\ chDbUpdate # <<>>
    /\ chDbUpdate' = Tail(chDbUpdate)
    /\ Head(chDbUpdate).opType = "D"
    /\ ~HasTrailingSlash(Head(chDbUpdate).info.relPath)

\* C29: with -update a sweep removes exactly the rows it has reported: the
\* rows that leave the transaction are the paths of the "deleted" lines the
\* sweep has written, as many as the deleted counter has grown, no row is
\* added, and the assertions on the number of rows deleted never end the
\* run.
C29_SweepDeletesReported ==
    [][(SweepApply /\ cfg.update) =>
          /\ status' = "running"
          /\ DOMAIN tx' \subseteq DOMAIN tx
          /\ DOMAIN tx \ DOMAIN tx' = LinePaths(NewLines, "deleted")
          /\ Cardinality(DOMAIN tx \ DOMAIN tx') = Len(NewLines)
          /\ stats'.numFilesDeleted = stats.numFilesDeleted + Len(NewLines)
          /\ \A k \in DOMAIN NewLines : NewLines[k].kind = "deleted"
      ]_vars

\* An update run has swept a scope whose own row and a row under it were
\* stale: both are reported and removed.
C29_Witness ==
    /\ cfg.update /\ status = "running" /\ chDbUpdate = <<>>
    /\ stats.numFilesDeleted = 2
    /\ LineCount(out, "deleted", pA) = 1
    /\ LineCount(out, "deleted", pAX) = 1
    /\ pA \notin DOMAIN tx /\ pAX \notin DOMAIN tx
    /\ {pA, pAX} \subseteq DOMAIN dbStart

\* ------------------------------------------------------------------- C30

\* C30: without -update a sweep changes nothing: the rows and flags inside
\* the transaction and the committed catalog stay as they are and no flag is
\* counted as cleared. The sweep still writes "deleted" lines only, one for
\* every unvisited row in its scope and none for a visited row, and the
\* deleted counter grows by the number of lines.
C30_DryRunSweepReadOnly ==
    [][(SweepApply /\ ~cfg.update) =>
          LET P == Head(chDbUpdate).info.relPath
          IN  /\ status' = "running"
              /\ tx' = tx /\ db' = db
              /\ stats'.numVisitedFlagsCleared = stats.numVisitedFlagsCleared
              /\ stats'.numFilesDeleted
                     = stats.numFilesDeleted + Len(NewLines)
              /\ \A k \in DOMAIN NewLines :
                    /\ NewLines[k].kind = "deleted"
                    /\ NewLines[k].path \in DOMAIN tx
                    /\ ~tx[NewLines[k].path].visited
              /\ \A q \in DOMAIN tx :
                    (~tx[q].visited /\ (P = <<>> \/ InScope(q, P)))
                        => LineCount(NewLines, "deleted", q) = 1
      ]_vars

\* A dry run has swept a scope with a marked row and a stale row: the stale
\* row is reported and counted, and both rows are still in the transaction
\* with their flags.
C30_Witness ==
    /\ ~cfg.update /\ status = "running" /\ chDbUpdate = <<>>
    /\ stats.numFilesDeleted = 1 /\ stats.numVisitedFlagsCleared = 0
    /\ LineCount(out, "deleted", pAX) = 1
    /\ pAX \in DOMAIN tx /\ ~tx[pAX].visited
    /\ pA \in DOMAIN tx /\ tx[pA].visited

\* ------------------------------------------------------------- C31 to C33

\* dbUpdateWorker takes a message of the given type from the channel; the
\* statement may succeed or end the run.
TakeStep(op) ==
    /\ status = "running" /\ dbPc = "loop" /\ chDbUpdate # <<>>
    /\ chDbUpdate' = Tail(chDbUpdate)
    /\ Head(chDbUpdate).opType = op

\* The step has ended the run and left the transaction as it was.
Aborts == status' = "fatal" /\ tx' = tx /\ db' = db

\* C31: mark(path) sets the visited flag of the row at exactly that path
\* when the flag is clear, and changes nothing else; when the path has no
\* row or its row is visited already, the run is aborted.
C31_Mark ==
    [][TakeStep("M") =>
          LET q == Head(chDbUpdate).info.relPath
          IN  IF q \in DOMAIN tx /\ ~tx[q].visited
              THEN /\ status' = "running"
                   /\ tx' = [tx EXCEPT ![q].visited = TRUE]
              ELSE Aborts
      ]_vars

\* A row of size 2 has been marked by a message that carries another size
\* and checksum: only its flag has changed.
C31_Witness ==
    /\ status = "running" /\ chDbUpdate = <<>>
    /\ stats.numFilesUnchanged = 1
    /\ stats.numFilesNew = 0 /\ stats.numFilesChanged = 0
    /\ pAX \in DOMAIN dbStart /\ dbStart[pAX].size = 2
    /\ tx = [dbStart EXCEPT ![pAX].visited = TRUE]

\* C32: insert(path, size, digest) adds one row at the path, with the size,
\* the digest (absent for the empty string) and visited = 1, and leaves
\* every other row as it was; when the path has a row the run is aborted
\* and that row stays the only one of its path.
C32_Insert ==
    [][TakeStep("I") =>
          LET file == Head(chDbUpdate).info
          IN  IF file.relPath \notin DOMAIN tx
              THEN /\ status' = "running"
                   /\ DOMAIN tx' = DOMAIN tx \cup {file.relPath}
                   /\ tx'[file.relPath] =
                         [size |-> file.size,
                          checksum |-> IF file.checksum = "" THEN Null
                                       ELSE file.checksum,
                          visited |-> TRUE]
                   /\ \A q \in DOMAIN tx : tx'[q] = tx[q]
              ELSE Aborts
      ]_vars

\* A row has been inserted next to the rows of the catalog.
C32_Witness ==
    /\ status = "running" /\ chDbUpdate = <<>>
    /\ stats.numFilesNew = 1
    /\ stats.numFilesChanged = 0 /\ stats.numFilesUnchanged = 0
    /\ pA \notin DOMAIN dbStart /\ pAX \in DOMAIN dbStart
    /\ DOMAIN tx = DOMAIN dbStart \cup {pA}
    /\ tx[pA] = [size |-> 1, checksum |-> "D2", visited |-> TRUE]

\* C33: updateAndMark(path, size, digest) overwrites the size and the
\* digest of the row at exactly that path and sets its visited flag,
\* whatever the flag was, and leaves every other row as it was; when the
\* path has no row the run is aborted.
C33_UpdateAndMark ==
    [][TakeStep("U") =>
          LET file == Head(chDbUpdate).info
          IN  IF file.relPath \in DOMAIN tx
              THEN /\ status' = "running"
                   /\ tx' = [tx EXCEPT ![file.relPath] =
                                [size |-> file.size,
                                 checksum |-> IF file.checksum = ""
                                              THEN Null ELSE file.checksum,
                                 visited |-> TRUE]]
              ELSE Aborts
      ]_vars

\* A row that was inserted, hence visited, has then been updated, and a
\* stored row of another size and checksum has been updated.
C33_Witness ==
    /\ status = "running" /\ chDbUpdate = <<>>
    /\ stats.numFilesNew = 1 /\ stats.numFilesChanged = 2
    /\ pA \notin DOMAIN dbStart
    /\ pAX \in DOMAIN dbStart /\ dbStart[pAX].size = 2
    /\ tx[pA] = [size |-> 1, checksum |-> "D2", visited |-> TRUE]
    /\ tx[pAX] = [size |-> 1, checksum |-> "D2", visited |-> TRUE]

\* -------------------------------------------------------------------- C34

\* The step is one of fileCheckWorker or of main: it moves a worker, takes
\* a file from the walk or moves main on.
ClassifierOrMainStep ==
    wk' # wk \/ todo' # todo \/ mainPc' # mainPc \/ sweepIdx' # sweepIdx

\* C34: single writer. The transaction is begun once, by dbUpdateWorker,
\* and ended once; the content of the catalog changes only in a step of
\* dbUpdateWorker while that transaction is open; the committed catalog
\* changes only at its commit; a step of a classifier (or of main) leaves
\* the catalog and the transaction alone.
C34_SingleWriter ==
    [][/\ txState' # txState =>
             /\ ~ClassifierOrMainStep
             /\ \/ txState = "none" /\ txState' = "open" /\ dbPc = "start"
                \/ /\ txState = "open" /\ dbPc = "loop"
                   /\ txState' \in {"committed", "rolledback"}
       /\ tx' # tx =>
             /\ ~ClassifierOrMainStep
             /\ txState' = "open"
             /\ \/ txState = "none" /\ dbPc = "start" /\ tx' = db
                \/ txState = "open" /\ dbPc = "loop"
       /\ db' # db =>
             /\ ~ClassifierOrMainStep
             /\ txState = "open" /\ txState' = "committed" /\ db' = tx
       /\ ClassifierOrMainStep => UNCHANGED <<db, tx, txState>>
      ]_vars

\* The transaction is open and holds a write of the run while a classifier
\* that has looked a row up is about to send.
C34_Witness ==
    /\ status = "running" /\ txState = "open" /\ dbPc = "loop"
    /\ tx # db /\ db = dbStart
    /\ \E w \in DOMAIN wk : wk[w].st = "send"

\* -------------------------------------------------------------------- C35

\* The run with one worker and one interleaving: classify every file of
\* the walk in order, then apply every message in order.
Sequential == SeqRun(dbStart, fs, cfg)

\* C35: interleaving independence. When no file is discovered twice, a run
\* that has completed has written the lines (as a multiset), counted the
\* counters and committed the catalog of the sequential run with one
\* worker, whatever the interleaving of the workers and dbUpdateWorker
\* was; a run that was stopped leaves the catalog of the start, and the
\* sequential run is stopped as well; and every row a worker looks up is
\* the row committed at the start of the run.
C35_InterleavingIndependence ==
    /\ todo # <<>> => db = dbStart /\ ~TxEnded
    /\ DuplicatedFiles = {} =>
          /\ Completed =>
                /\ Sequential.status = "exited"
                /\ SameLines(out, Sequential.out)
                /\ Len(out) = Len(Sequential.out)
                /\ stats = Sequential.stats
                /\ db = Sequential.db
          /\ status = "fatal" =>
                Sequential.status = "fatal" /\ db = dbStart

\* A persisting run of two files, one new and one changed, has completed:
\* the two workers took one file each and the messages may have arrived in
\* either order.
C35_Witness ==
    /\ Completed /\ cfg.update /\ DuplicatedFiles = {}
    /\ stats.numFilesNew = 1 /\ stats.numFilesChanged = 1
    /\ db # dbStart
    /\ Len(out) = 2

\* -------------------------------------------------------------------- C36

\* The positions of the lines of a kind in the result stream.
LinesOf(kind) == {i \in DOMAIN out : out[i].kind = kind}

\* C36: every "new" and every "changed" line is written before the first
\* "deleted" line; a "deleted" line is written only when the workers have
\* stopped and nothing is left to classify.
C36_ResultStreamOrdering ==
    /\ \A i \in LinesOf("new") \cup LinesOf("changed") :
          \A j \in LinesOf("deleted") : i < j
    /\ LinesOf("deleted") # {} =>
          /\ todo = <<>> /\ mainPc # "walk"
          /\ \A w \in Workers : wk[w].st = "stopped"

\* A run has written a new, a changed and a deleted line.
C36_Witness ==
    /\ LinesOf("new") # {} /\ LinesOf("changed") # {}
    /\ LinesOf("deleted") # {}

\* -------------------------------------------------------------------- C37

\* The paths of the lines that the step appends to the result stream.
NewLinePaths == [i \in 1..(Len(out') - Len(out)) |-> out'[Len(out) + i].path]

\* The scope whose sweep dbUpdateWorker is about to run, by the count of
\* the "D" messages sent and not yet received.
NextScope == SweepList(cfg)[sweepIdx - Len(SweepsIn(chDbUpdate)) + 1]

\* C37: the sweeps run in the order of the scopes of the command line; one
\* sweep appends only "deleted" lines, in ascending path order, the line of
\* the scope entry itself (when its row is stale) first.
C37_DeletionOrder ==
    [][SweepApply =>
          LET P == Head(chDbUpdate).info.relPath
          IN  /\ P = NextScope
              /\ Len(out') >= Len(out)
              /\ SubSeq(out', 1, Len(out)) = out
              /\ \A i \in Len(out) + 1 .. Len(out') : out'[i].kind = "deleted"
              /\ \A i, j \in DOMAIN NewLinePaths :
                    i < j => StrLess(NewLinePaths[i], NewLinePaths[j])
              /\ (P # <<>> /\ P \in DOMAIN tx /\ ~tx[P].visited) =>
                    NewLinePaths # <<>> /\ NewLinePaths[1] = P
      ]_vars

\* -------------------------------------------------------------------- C38

\* How many of the messages of a walk are for files that are not excluded.
NumNotExcluded(walk) ==
    Cardinality({i \in DOMAIN walk : ~shouldExcludePath(cfg, walk[i].relPath)})

\* C38: counter conservation. While the run goes on, the new, changed and
\* unchanged counters add up to the number of files received that are not
\* excluded; at the end of a run that has completed they add up to the
\* number of discovered files that are not excluded (each file once when
\* no file is discovered twice), and the deleted counter is the number of
\* "deleted" lines.
C38_CounterConservation ==
    /\ status = "running" => NumClassified = NumNotExcluded(Received)
    /\ Completed =>
          /\ NumClassified = NumNotExcluded(WalkAll(fs, cfg))
          /\ DuplicatedFiles = {} => NumClassified = Cardinality(Discovered)
          /\ stats.numFilesDeleted = Cardinality(LinesOf("deleted"))

\* A completed run with a new file, an unchanged file and a deleted line.
C38_Witness ==
    /\ Completed
    /\ stats.numFilesNew = 1 /\ stats.numFilesUnchanged = 1
    /\ stats.numFilesChanged = 0 /\ stats.numFilesDeleted > 0
    /\ Cardinality(Discovered) = 2

\* -------------------------------------------------------------------- C39

\* fileCheckWorker reads the file that heads the walk to compute its
\* checksum: not in size-only mode, and with a row of the same size in
\* both modes, with no row or a row of another size only with -update.
DigestComputed ==
    LET f == Head(todo)
    IN  /\ ~cfg.sizeOnly
        /\ ~shouldExcludePath(cfg, f.relPath)
        /\ \/ cfg.update
           \/ f.relPath \in DOMAIN db /\ db[f.relPath].size = f.size

\* The read of the file that heads the walk returns another number of
\* bytes than the size the walk reported.
TornRead == fs[Head(todo).relPath].n # Head(todo).size

\* C39: when a worker computes a checksum and the number of bytes read
\* differs from the discovered size, the step ends the run for every
\* thread: no message for the file is held by a worker or enters the
\* channel, the transaction is left as it was and has not been committed,
\* and the committed catalog is the one of the start of the run. A stopped
\* run never has a committed transaction.
C39_TornReadAborts ==
    /\ [](status = "fatal" => db = dbStart /\ txState # "committed")
    /\ [][\A w \in Workers :
            (CheckStep(w) /\ DigestComputed /\ TornRead) =>
                /\ status' = "fatal"
                /\ wk' = wk /\ chDbUpdate' = chDbUpdate
                /\ tx' = tx /\ txState' = txState
                /\ txState # "committed"
                /\ db' = db /\ db = dbStart
        ]_vars

\* An update run has been stopped by the torn read of a/x while the
\* transaction held a write of the run: nothing of it is committed.
C39_Witness ==
    /\ status = "fatal" /\ cfg.update /\ ~cfg.sizeOnly
    /\ DuplicatedFiles = {}
    /\ pAX \in DOMAIN fs /\ fs[pAX].n # fs[pAX].size
    /\ todo = <<>> /\ mainPc = "walk"
    /\ txState = "open" /\ tx # db
    /\ \A w \in Workers : wk[w].pending = <<>>
    /\ chDbUpdate = <<>>

====
